---------------------------- MODULE Spec2Model ----------------------------
(***************************************************************************)
(* A model of the news aggregation service: NewsService.fetch_news and its *)
(* two source adapters (services/news_service.py), the enrichment backends *)
(* (services/ai_service.py, utils/formatter.py) and the request handlers   *)
(* of app.py.                                                              *)
(*                                                                         *)
(* Every request is handled by one worker from start to end, and nothing   *)
(* but the start-up flag AI_AVAILABLE outlives a request.  A handler is    *)
(* therefore one action: it draws the request and the answers of the       *)
(* outside world (provider payloads, backend outcomes) and computes the    *)
(* response as the code does.  Return ends the request and discards its    *)
(* state.                                                                  *)
(*                                                                         *)
(* Text is a sequence of one-character strings.  A Python dict is a record *)
(* and a missing key is a missing field.                                   *)
(***************************************************************************)
EXTENDS Integers, Sequences, FiniteSets, TLC

VARIABLES
    AI_AVAILABLE,        \* app.py: the enrichment strategy chosen at start-up
    translators,         \* AIService.translators: the languages with a loaded translator
    pc,                  \* "idle" between requests, "done" when one has run
    op,                  \* the operation that ran
    request,             \* a handler's input: the query arguments or the /nlp text
    params,              \* the parameters the handler works with
    country,             \* fetch_news parameter: its comma-separated segments
    page_size,           \* fetch_news parameter
    responses,           \* what the providers answered, one entry per adapter call
    adapter_calls,       \* the adapter calls fetch_news made, in order
    all_articles,        \* fetch_news: the merged list before ranking
    articles,            \* fetch_news: the list it returned
    raised,              \* fetch_news ended with an exception
    backend,             \* what the pipelines did, one entry per ranked article
    processed_articles,  \* a handler's enriched articles
    response             \* a handler's response

vars == <<AI_AVAILABLE, translators, pc, op, request, params, country, page_size,
          responses, adapter_calls, all_articles, articles, raised, backend,
          processed_articles, response>>

-----------------------------------------------------------------------------
(* Bounds of the model *)

\* provider items per adapter call (the code asks a provider for up to 10)
MaxPerCall == 2
\* a page size below the default, so that truncation happens
SmallPageSize == 2
\* provider items per request in the handler runs
MaxBatch == 2

-----------------------------------------------------------------------------
(* Values *)

None == "None"

\* the country argument is the sequence of its comma-separated segments;
\* None has none
NoCountry == <<>>

\* x.get('country_priority', 999): the rank of an untagged article
UnrankedSentinel == 999

\* fetch_news(..., page_size: int = 5)
DefaultPageSize == 5

\* datetime.min.replace(tzinfo=timezone.utc).timestamp(), in the model's time
\* unit; every instant a provider reports is later
DatetimeMin == 0

\* Provider timestamps: form is the syntax of the string and instant the POSIX
\* time it denotes when it parses.
\*   "iso_z"    2024-05-01T10:00:00Z       (has a 'T', fromisoformat after Z -> +00:00)
\*   "iso_date" 2024-05-02                 (no 'T', fromisoformat)
\*   "strptime" 2024-5-1 9:05:00           (fromisoformat rejects it, strptime parses it)
\*   "garbage"  yesterday                  (no parser accepts it)
\*   "empty"    ''
PublishedAtValues ==
    { [form |-> "empty",    instant |-> 0],
      [form |-> "garbage",  instant |-> 0],
      [form |-> "strptime", instant |-> 1],
      [form |-> "iso_z",    instant |-> 1],
      [form |-> "iso_date", instant |-> 2] }

\* the timestamps of the ranking runs
RankingPublishedAt == { p \in PublishedAtValues : p.form \in {"empty", "iso_z", "iso_date"} }

\* the ways an adapter call fails: urlopen raising URLError, urlopen timing
\* out, json.loads or decode() rejecting the payload
FailureKinds == {"transport", "timeout", "decode"}

Txt_title == <<"t">>
Txt_description == <<"d">>

\* provider items of the ranking runs: well-formed, differing in timestamp
RankingItems ==
    { [title |-> Txt_title, description |-> Txt_description, publishedAt |-> p] :
        p \in RankingPublishedAt }

SeqsUpTo(S, n) == UNION { [1..m -> S] : m \in 0..n }

\* what one adapter call can meet: a decoded payload or a failure
Payloads(S, n, kinds) ==
    { [ok |-> TRUE, error |-> "none", items |-> s] : s \in SeqsUpTo(S, n) }
    \cup { [ok |-> FALSE, error |-> e, items |-> <<>>] : e \in kinds }

\* the country arguments of the ranking runs; " us" carries the blank that
\* follows the comma in "in, us"
CountryParams == { NoCountry, <<"in">>, <<"in", " us">>, <<"us", "in">> }

PageSizes == { SmallPageSize, DefaultPageSize }

-----------------------------------------------------------------------------
(* Text: Python str operations on sequences of characters *)

Whitespace == {" "}

LowerTable ==
       ("A" :> "a") @@ ("B" :> "b") @@ ("C" :> "c") @@ ("D" :> "d") @@ ("E" :> "e") @@ ("F" :> "f")
     @@ ("G" :> "g") @@ ("H" :> "h") @@ ("I" :> "i") @@ ("J" :> "j") @@ ("K" :> "k") @@ ("L" :> "l")
     @@ ("M" :> "m") @@ ("N" :> "n") @@ ("O" :> "o") @@ ("P" :> "p") @@ ("Q" :> "q") @@ ("R" :> "r")
     @@ ("S" :> "s") @@ ("T" :> "t") @@ ("U" :> "u") @@ ("V" :> "v") @@ ("W" :> "w") @@ ("X" :> "x")
     @@ ("Y" :> "y") @@ ("Z" :> "z")

\* str.lower()
Lower(t) == [k \in 1..Len(t) |-> IF t[k] \in DOMAIN LowerTable THEN LowerTable[t[k]] ELSE t[k]]

SetMin(S) == CHOOSE m \in S : \A k \in S : m <= k

\* the first position from k on, and the last up to k, whose character is
\* not in chars
RECURSIVE FirstKept(_, _, _)
FirstKept(t, chars, k) ==
    IF k > Len(t) \/ t[k] \notin chars THEN k ELSE FirstKept(t, chars, k + 1)

RECURSIVE LastKept(_, _, _)
LastKept(t, chars, k) ==
    IF k < 1 \/ t[k] \notin chars THEN k ELSE LastKept(t, chars, k - 1)

\* str.strip(chars): drops the leading and trailing characters of the set
StripChars(t, chars) == SubSeq(t, FirstKept(t, chars, 1), LastKept(t, chars, Len(t)))

\* str.strip()
StripText(t) == StripChars(t, Whitespace)

\* w occurs in t at position i
OccursAt(t, w, i) == \A j \in 1..Len(w) : t[i + j - 1] = w[j]

\* w in t, for a non-empty w
Contains(t, w) ==
    \E i \in 1..(Len(t) - Len(w) + 1) : t[i] = w[1] /\ OccursAt(t, w, i)

\* t[:n]; a negative n counts from the end
Prefix(t, n) ==
    IF n < 0 THEN (IF Len(t) + n > 0 THEN SubSeq(t, 1, Len(t) + n) ELSE <<>>)
    ELSE SubSeq(t, 1, IF Len(t) < n THEN Len(t) ELSE n)

\* str.split(sep) for a non-empty separator
RECURSIVE Split(_, _)
Split(t, sep) ==
    LET hits == { i \in 1..(Len(t) - Len(sep) + 1) : OccursAt(t, sep, i) }
    IN  IF hits = {} THEN <<t>>
        ELSE LET i == SetMin(hits)
             IN  <<SubSeq(t, 1, i - 1)>> \o Split(SubSeq(t, i + Len(sep), Len(t)), sep)

\* str.split(): the maximal runs of non-whitespace characters
RECURSIVE Words(_)
Words(t) ==
    LET ink == { k \in 1..Len(t) : t[k] \notin Whitespace }
    IN  IF ink = {} THEN <<>>
        ELSE LET a == SetMin(ink)
                 gaps == { k \in a..Len(t) : t[k] \in Whitespace }
                 b == IF gaps = {} THEN Len(t) ELSE SetMin(gaps) - 1
             IN  <<SubSeq(t, a, b)>> \o Words(SubSeq(t, b + 1, Len(t)))

\* sep.join(parts)
RECURSIVE Join(_, _)
Join(parts, sep) ==
    IF parts = <<>> THEN <<>>
    ELSE IF Len(parts) = 1 THEN parts[1]
    ELSE parts[1] \o sep \o Join(Tail(parts), sep)

\* n copies of the character c
Rep(c, n) == [k \in 1..n |-> c]

Ellipsis == <<".", ".", ".">>

-----------------------------------------------------------------------------
(* utils/formatter.py: the fallback engine *)

positive_words ==
    <<
      <<"g", "o", "o", "d">>, <<"g", "r", "e", "a", "t">>, <<"e", "x", "c", "e", "l", "l", "e", "n", "t">>,
      <<"a", "m", "a", "z", "i", "n", "g">>, <<"w", "o", "n", "d", "e", "r", "f", "u", "l">>, <<"f", "a", "n", "t", "a", "s", "t", "i", "c">>,
      <<"b", "r", "e", "a", "k", "t", "h", "r", "o", "u", "g", "h">>, <<"s", "u", "c", "c", "e", "s", "s">>, <<"w", "i", "n">>,
      <<"a", "c", "h", "i", "e", "v", "e", "m", "e", "n", "t">>, <<"p", "r", "o", "g", "r", "e", "s", "s">>, <<"g", "r", "o", "w", "t", "h">>,
      <<"i", "n", "n", "o", "v", "a", "t", "i", "o", "n">>, <<"a", "d", "v", "a", "n", "c", "e">>, <<"i", "m", "p", "r", "o", "v", "e", "m", "e", "n", "t">>,
      <<"p", "o", "s", "i", "t", "i", "v", "e">>, <<"b", "e", "n", "e", "f", "i", "t">>
    >>

negative_words ==
    <<
      <<"b", "a", "d">>, <<"t", "e", "r", "r", "i", "b", "l", "e">>, <<"a", "w", "f", "u", "l">>,
      <<"c", "r", "i", "s", "i", "s">>, <<"p", "r", "o", "b", "l", "e", "m">>, <<"i", "s", "s", "u", "e">>,
      <<"c", "o", "n", "c", "e", "r", "n">>, <<"d", "e", "c", "l", "i", "n", "e">>, <<"d", "r", "o", "p">>,
      <<"f", "a", "l", "l">>, <<"c", "r", "a", "s", "h">>, <<"f", "a", "i", "l", "u", "r", "e">>,
      <<"l", "o", "s", "s">>, <<"d", "a", "m", "a", "g", "e">>, <<"t", "h", "r", "e", "a", "t">>,
      <<"r", "i", "s", "k">>, <<"d", "a", "n", "g", "e", "r">>, <<"n", "e", "g", "a", "t", "i", "v", "e">>,
      <<"c", "o", "n", "t", "r", "o", "v", "e", "r", "s", "y">>
    >>

Hits(words, content_lower) ==
    Cardinality({ k \in 1..Len(words) : Contains(content_lower, words[k]) })

\* the glyphs of the fallback engine, named by code point
Glyph_neutral == "U+1F610"
Glyph_positive == "U+1F60A"
Glyph_negative == "U+1F620"

\* create_simple_sentiment, were a tie to go to the positive side
create_simple_sentiment_TiePositive(content) ==
    IF content = <<>> THEN [label |-> "neutral", emoji |-> Glyph_neutral]
    ELSE LET content_lower == Lower(content)
             positive_count == Hits(positive_words, content_lower)
             negative_count == Hits(negative_words, content_lower)
         IN  IF positive_count >= negative_count
             THEN [label |-> "positive", emoji |-> Glyph_positive]
             ELSE [label |-> "negative", emoji |-> Glyph_negative]

create_simple_sentiment(content) ==
    IF content = <<>> THEN [label |-> "neutral", emoji |-> Glyph_neutral]
    ELSE LET content_lower == Lower(content)
             positive_count == Hits(positive_words, content_lower)
             negative_count == Hits(negative_words, content_lower)
         IN  IF positive_count > negative_count
             THEN [label |-> "positive", emoji |-> Glyph_positive]
             ELSE IF negative_count > positive_count
             THEN [label |-> "negative", emoji |-> Glyph_negative]
             ELSE [label |-> "neutral", emoji |-> Glyph_neutral]

\* create_simple_summary, were it to cut at max_length before adding the marker
create_simple_summary_CutAtMax(content, max_length) ==
    IF content = <<>> THEN content
    ELSE IF Len(content) <= max_length THEN content
    ELSE StripText(Prefix(content, max_length) \o Ellipsis)

\* create_simple_summary, were its loop to measure a run of sentences as it is
\* returned, without the blank behind its last full stop
create_simple_summary_FitWithoutBlank(content, max_length) ==
    IF content = <<>> THEN content
    ELSE IF Len(content) <= max_length THEN content
    ELSE LET sentences == Split(content, <<".", " ">>)
             run(k) == Join(SubSeq(sentences, 1, k), <<".", " ">>) \o <<".">>
             fits == { k \in 1..Len(sentences) : Len(run(k)) <= max_length }
         IN  IF fits = {}
             THEN StripText(Prefix(content, max_length - 3) \o Ellipsis)
             ELSE StripText(run(Cardinality(fits)))

\* the loop of create_simple_summary: whole sentences while they fit
RECURSIVE Accumulate(_, _, _, _)
Accumulate(sentences, k, summary, max_length) ==
    IF k > Len(sentences) THEN summary
    ELSE IF Len(summary \o sentences[k] \o <<".", " ">>) <= max_length
    THEN Accumulate(sentences, k + 1, summary \o sentences[k] \o <<".", " ">>, max_length)
    ELSE summary

create_simple_summary(content, max_length) ==
    IF content = <<>> THEN content
    ELSE IF Len(content) <= max_length THEN content
    ELSE LET sentences == Split(content, <<".", " ">>)
             summary == Accumulate(sentences, 1, <<>>, max_length)
         IN  IF summary = <<>>
             THEN StripText(Prefix(content, max_length - 3) \o Ellipsis)
             ELSE StripText(summary)

\* create_simple_summary(content, max_length: int = 80)
SimpleSummaryDefault == 80

\* the words the fallback dictionaries know; a translation is one glyph
\* string, written lang:word
telugu_words ==
    <<
      <<"n", "e", "w", "s">>, <<"l", "a", "t", "e", "s", "t">>, <<"b", "r", "e", "a", "k", "i", "n", "g">>,
      <<"t", "e", "c", "h", "n", "o", "l", "o", "g", "y">>, <<"s", "p", "o", "r", "t", "s">>, <<"p", "o", "l", "i", "t", "i", "c", "s">>,
      <<"b", "u", "s", "i", "n", "e", "s", "s">>, <<"h", "e", "a", "l", "t", "h">>, <<"i", "n", "d", "i", "a">>,
      <<"c", "r", "i", "c", "k", "e", "t">>, <<"b", "o", "l", "l", "y", "w", "o", "o", "d">>, <<"m", "o", "v", "i", "e">>,
      <<"f", "i", "l", "m">>
    >>

hindi_words ==
    <<
      <<"n", "e", "w", "s">>, <<"l", "a", "t", "e", "s", "t">>, <<"b", "r", "e", "a", "k", "i", "n", "g">>,
      <<"t", "e", "c", "h", "n", "o", "l", "o", "g", "y">>, <<"s", "p", "o", "r", "t", "s">>, <<"p", "o", "l", "i", "t", "i", "c", "s">>,
      <<"b", "u", "s", "i", "n", "e", "s", "s">>, <<"h", "e", "a", "l", "t", "h">>, <<"i", "n", "d", "i", "a">>,
      <<"c", "r", "i", "c", "k", "e", "t">>, <<"b", "o", "l", "l", "y", "w", "o", "o", "d">>, <<"m", "o", "v", "i", "e">>
    >>

InWords(words, w) == \E k \in 1..Len(words) : words[k] = w

\* one word of translate_to_language: looked up lower-cased and without the
\* punctuation around it
TranslateWord(word, words, lang) ==
    LET clean_word == StripChars(Lower(word), {".", ",", "!", "?"})
    IN  IF InWords(words, clean_word) THEN <<lang>> \o <<":">> \o clean_word ELSE word

\* translate_to_language, were every language but Telugu to get the Hindi table
translate_to_language_HindiDefault(text, target_language) ==
    IF target_language = "en" \/ text = <<>> THEN text
    ELSE LET words == Words(text)
         IN  IF target_language = "te"
             THEN Join([k \in 1..Len(words) |-> TranslateWord(words[k], telugu_words, "te")],
                       <<" ">>)
             ELSE Join([k \in 1..Len(words) |-> TranslateWord(words[k], hindi_words, "hi")],
                       <<" ">>)

translate_to_language(text, target_language) ==
    IF target_language = "en" \/ text = <<>> THEN text
    ELSE IF target_language = "te"
    THEN LET words == Words(text)
         IN  Join([k \in 1..Len(words) |-> TranslateWord(words[k], telugu_words, "te")], <<" ">>)
    ELSE IF target_language = "hi"
    THEN LET words == Words(text)
         IN  Join([k \in 1..Len(words) |-> TranslateWord(words[k], hindi_words, "hi")], <<" ">>)
    ELSE text

\* timedelta keeps a difference as whole days and the seconds left over
SecondsPerDay == 86400

\* elif diff.seconds > 3600 / elif diff.seconds > 60
SecondsPerHour == 3600
SecondsPerMinute == 60

\* f"{n} day{'s' if n != 1 else ''} ago"
Ago(n, unit) == [count |-> n, words |-> IF n # 1 THEN unit \o "s ago" ELSE unit \o " ago"]

Just_now == [count |-> 0, words |-> "Just now"]
Unknown_time == [count |-> 0, words |-> "Unknown time"]

\* format_time_ago(published_at) at the instant now of datetime.now(); both
\* branches of the parse are datetime.fromisoformat, which takes the forms
\* iso_z (after Z -> +00:00) and iso_date and raises on the others
format_time_ago(published_at, now) ==
    IF published_at.form = "empty" THEN Unknown_time
    ELSE IF published_at.form \notin {"iso_z", "iso_date"} THEN Unknown_time
    ELSE LET diff == now - published_at.instant
             days == diff \div SecondsPerDay
             seconds == diff % SecondsPerDay
         IN  IF days > 0 THEN Ago(days, "day")
             ELSE IF seconds > SecondsPerHour THEN Ago(seconds \div SecondsPerHour, "hour")
             ELSE IF seconds > SecondsPerMinute
             THEN Ago(seconds \div SecondsPerMinute, "minute")
             ELSE Just_now

\* generate_follow_up_suggestions: the four `if any(term in all_content ...)`
\* blocks in program order; a suggestion is named by its link text
follow_up_topics ==
    <<
      [topic |-> "regional cinema",
       terms |-> << <<"b", "o", "l", "l", "y", "w", "o", "o", "d">>,
                   <<"t", "o", "l", "l", "y", "w", "o", "o", "d">>,
                   <<"k", "o", "l", "l", "y", "w", "o", "o", "d">>,
                   <<"i", "n", "d", "i", "a", "n">>,
                   <<"h", "i", "n", "d", "i">>,
                   <<"t", "e", "l", "u", "g", "u">>,
                   <<"t", "a", "m", "i", "l">> >>,
       suggestions |-> << "More Bollywood News", "Telugu Cinema Updates", "Tamil Movies News" >>],
      [topic |-> "technology",
       terms |-> << <<"a", "i">>,
                   <<"a", "r", "t", "i", "f", "i", "c", "i", "a", "l", " ", "i", "n", "t", "e", "l", "l", "i", "g", "e", "n", "c", "e">>,
                   <<"m", "a", "c", "h", "i", "n", "e", " ", "l", "e", "a", "r", "n", "i", "n", "g">>,
                   <<"t", "e", "c", "h">> >>,
       suggestions |-> << "More AI News", "Tech Innovations" >>],
      [topic |-> "sports",
       terms |-> << <<"c", "r", "i", "c", "k", "e", "t">>,
                   <<"f", "o", "o", "t", "b", "a", "l", "l">>,
                   <<"s", "p", "o", "r", "t", "s">>,
                   <<"m", "a", "t", "c", "h">>,
                   <<"t", "o", "u", "r", "n", "a", "m", "e", "n", "t">> >>,
       suggestions |-> << "Cricket Updates", "Football News" >>],
      [topic |-> "entertainment",
       terms |-> << <<"m", "o", "v", "i", "e">>,
                   <<"f", "i", "l", "m">>,
                   <<"a", "c", "t", "o", "r">>,
                   <<"a", "c", "t", "r", "e", "s", "s">>,
                   <<"c", "e", "l", "e", "b", "r", "i", "t", "y">> >>,
       suggestions |-> << "Celebrity News", "Movie Reviews" >>]
    >>

default_suggestions == << "Breaking News", "India News", "World News" >>

\* the suggestions cut at: suggestions[:3]
SuggestionLimit == 3

\* " ".join([title + " " + content for article in articles]).lower()
AllContent(arts) ==
    Lower(Join([k \in 1..Len(arts) |-> arts[k].title \o <<" ">> \o arts[k].content], <<" ">>))

\* suggestions.extend(...) for each topic from the k-th on whose terms occur
RECURSIVE ExtendSuggestions(_, _)
ExtendSuggestions(all_content, k) ==
    IF k > Len(follow_up_topics) THEN <<>>
    ELSE (IF \E j \in 1..Len(follow_up_topics[k].terms) :
                 Contains(all_content, follow_up_topics[k].terms[j])
          THEN follow_up_topics[k].suggestions ELSE <<>>)
         \o ExtendSuggestions(all_content, k + 1)

\* generate_follow_up_suggestions, were it to return every suggestion collected
generate_follow_up_suggestions_Uncut(arts) ==
    IF arts = <<>> THEN <<>>
    ELSE LET suggestions == ExtendSuggestions(AllContent(arts), 1)
         IN  IF suggestions # <<>> THEN suggestions ELSE default_suggestions

\* generate_follow_up_suggestions: the lines of the string it returns
generate_follow_up_suggestions(arts) ==
    IF arts = <<>> THEN <<>>
    ELSE LET suggestions == ExtendSuggestions(AllContent(arts), 1)
         IN  IF suggestions # <<>> THEN Prefix(suggestions, SuggestionLimit)
             ELSE default_suggestions

\* the header line of a digest stands for the digest
Digest_no_articles == "No news articles found"
Digest_latest == "Latest News"

format_chat_response(arts) ==
    IF arts = <<>>
    THEN [data |-> <<>>, formatted_response |-> Digest_no_articles]
    ELSE [data |-> arts, formatted_response |-> Digest_latest]

-----------------------------------------------------------------------------
(* services/ai_service.py: the advanced backend *)

\* translation_models: the languages a translator is loaded for
translation_models == {"hi", "te", "fr", "es"}

\* len(text.strip()) < 50: texts the summarizer is not asked about
SummarizeMinChars == 50
\* input_text = text[:2048]
SummarizeInputChars == 2048
\* text[:200] + "..." if len(text) > 200 else text
FallbackSummaryChars == 200

\* what the summarization pipeline answers: some text of its own, fixed by
\* its input
PipelineSummary(input_text) == <<"S", ":">> \o Prefix(input_text, 6)

\* what a translation pipeline answers
PipelineTranslation(text, lang) == <<lang, ":">> \o text

\* the glyphs of ai_service.py, as the file has them
AIGlyph_neutral == "F0 178 2DC"
AIGlyph_positive == "F0 178 2DC 160"
AIGlyph_negative == "F0 178 2DC A0"

\* A method of AIService answers [raises, value]: its own try/except turns
\* a pipeline that raises into a value.

summarize_text_NoCatch(text, max_length, pipeline) ==
    IF text = <<>> \/ Len(StripText(text)) < SummarizeMinChars
    THEN [raises |-> FALSE, value |-> text]
    ELSE IF pipeline = "ok"
    THEN [raises |-> FALSE, value |-> PipelineSummary(Prefix(text, SummarizeInputChars))]
    ELSE [raises |-> TRUE, value |-> <<>>]

\* summarize_text; pipeline is "ok" or "fail" (the pipeline raises)
summarize_text(text, max_length, pipeline) ==
    IF text = <<>> \/ Len(StripText(text)) < SummarizeMinChars
    THEN [raises |-> FALSE, value |-> text]
    ELSE IF pipeline = "ok"
    THEN [raises |-> FALSE, value |-> PipelineSummary(Prefix(text, SummarizeInputChars))]
    ELSE [raises |-> FALSE,
          value |-> IF Len(text) > FallbackSummaryChars
                    THEN Prefix(text, FallbackSummaryChars) \o Ellipsis
                    ELSE text]

\* the keys of sentiment_mapping
Label_positive == <<"p", "o", "s", "i", "t", "i", "v", "e">>
Label_negative == <<"n", "e", "g", "a", "t", "i", "v", "e">>
Label_neutral == <<"n", "e", "u", "t", "r", "a", "l">>
Label_0 == <<"l", "a", "b", "e", "l", "_", "0">>
Label_1 == <<"l", "a", "b", "e", "l", "_", "1">>
Label_2 == <<"l", "a", "b", "e", "l", "_", "2">>

sentiment_mapping_RawDefault(sentiment_label) ==
    IF sentiment_label = Label_positive
    THEN [label |-> "positive", emoji |-> AIGlyph_positive]
    ELSE IF sentiment_label = Label_negative
    THEN [label |-> "negative", emoji |-> AIGlyph_negative]
    ELSE [label |-> "unknown", emoji |-> AIGlyph_neutral]

\* sentiment_mapping.get(sentiment_label, neutral)
sentiment_mapping(sentiment_label) ==
    IF sentiment_label \in {Label_positive, Label_2}
    THEN [label |-> "positive", emoji |-> AIGlyph_positive]
    ELSE IF sentiment_label \in {Label_negative, Label_0}
    THEN [label |-> "negative", emoji |-> AIGlyph_negative]
    ELSE IF sentiment_label \in {Label_neutral, Label_1}
    THEN [label |-> "neutral", emoji |-> AIGlyph_neutral]
    ELSE [label |-> "neutral", emoji |-> AIGlyph_neutral]

\* analyze_sentiment, were it to look the label up as the pipeline spells it
analyze_sentiment_CaseSensitive(text, pipeline) ==
    IF text = <<>>
    THEN [raises |-> FALSE, value |-> [label |-> "neutral", emoji |-> AIGlyph_neutral]]
    ELSE IF pipeline.raises
    THEN [raises |-> FALSE, value |-> [label |-> "neutral", emoji |-> AIGlyph_neutral]]
    ELSE [raises |-> FALSE, value |-> sentiment_mapping(pipeline.label)]

\* analyze_sentiment; pipeline = [raises, label]: the sentiment pipeline
\* raises or answers a label
analyze_sentiment(text, pipeline) ==
    IF text = <<>>
    THEN [raises |-> FALSE, value |-> [label |-> "neutral", emoji |-> AIGlyph_neutral]]
    ELSE IF pipeline.raises
    THEN [raises |-> FALSE, value |-> [label |-> "neutral", emoji |-> AIGlyph_neutral]]
    ELSE [raises |-> FALSE, value |-> sentiment_mapping(Lower(pipeline.label))]

\* translate_text; loaded is self.translators, pipeline is "ok" or "fail"
translate_text(text, target_language, loaded, pipeline) ==
    IF text = <<>> \/ target_language = "en" THEN [raises |-> FALSE, value |-> text]
    ELSE IF target_language \notin loaded THEN [raises |-> FALSE, value |-> text]
    ELSE IF pipeline = "ok"
    THEN [raises |-> FALSE, value |-> PipelineTranslation(text, target_language)]
    ELSE [raises |-> FALSE, value |-> text]

-----------------------------------------------------------------------------
(* services/news_service.py *)

\* str.strip() on a country segment
Strip(s) == IF s = " us" THEN "us" ELSE IF s = " in" THEN "in" ELSE s

\* if country: countries_list = [c.strip() for c in country.split(',')]
CountriesList(c) ==
    IF c = NoCountry \/ c = <<"">> THEN <<>>
    ELSE [k \in 1..Len(c) |-> Strip(c[k])]

\* _enhance_keyword_for_indian_content: indian_movie_terms, in the order of
\* the dict; a prefixed entry is an f-string that starts with the keyword
indian_movie_terms ==
    <<
      [term |-> <<"i", "n", "d", "i", "a", "n", " ", "m", "o", "v", "i", "e", "s">>,
       prefixed |-> FALSE,
       enhanced |-> <<"i", "n", "d", "i", "a", "n", " ", "m", "o", "v", "i", "e", "s", " ", "b", "o", "l", "l", "y", "w", "o", "o", "d", " ", "t", "o", "l", "l", "y", "w", "o", "o", "d", " ", "k", "o", "l", "l", "y", "w", "o", "o", "d">>],
      [term |-> <<"b", "o", "l", "l", "y", "w", "o", "o", "d">>,
       prefixed |-> FALSE,
       enhanced |-> <<"b", "o", "l", "l", "y", "w", "o", "o", "d", " ", "h", "i", "n", "d", "i", " ", "c", "i", "n", "e", "m", "a", " ", "m", "u", "m", "b", "a", "i", " ", "f", "i", "l", "m", "s">>],
      [term |-> <<"t", "o", "l", "l", "y", "w", "o", "o", "d">>,
       prefixed |-> FALSE,
       enhanced |-> <<"t", "o", "l", "l", "y", "w", "o", "o", "d", " ", "t", "e", "l", "u", "g", "u", " ", "c", "i", "n", "e", "m", "a", " ", "h", "y", "d", "e", "r", "a", "b", "a", "d", " ", "f", "i", "l", "m", "s">>],
      [term |-> <<"k", "o", "l", "l", "y", "w", "o", "o", "d">>,
       prefixed |-> FALSE,
       enhanced |-> <<"k", "o", "l", "l", "y", "w", "o", "o", "d", " ", "t", "a", "m", "i", "l", " ", "c", "i", "n", "e", "m", "a", " ", "c", "h", "e", "n", "n", "a", "i", " ", "f", "i", "l", "m", "s">>],
      [term |-> <<"m", "o", "v", "i", "e", "s">>,
       prefixed |-> TRUE,
       enhanced |-> <<" ", "b", "o", "l", "l", "y", "w", "o", "o", "d", " ", "h", "i", "n", "d", "i", " ", "t", "e", "l", "u", "g", "u", " ", "t", "a", "m", "i", "l">>],
      [term |-> <<"c", "i", "n", "e", "m", "a">>,
       prefixed |-> TRUE,
       enhanced |-> <<" ", "i", "n", "d", "i", "a", "n", " ", "c", "i", "n", "e", "m", "a", " ", "b", "o", "l", "l", "y", "w", "o", "o", "d">>]
    >>

entertainment_words ==
    << <<"e", "n", "t", "e", "r", "t", "a", "i", "n", "m", "e", "n", "t">>, <<"c", "e", "l", "e", "b", "r", "i", "t", "y">>, <<"a", "c", "t", "o", "r">>, <<"a", "c", "t", "r", "e", "s", "s">> >>

india_bollywood == <<" ", "i", "n", "d", "i", "a", " ", "b", "o", "l", "l", "y", "w", "o", "o", "d">>

\* the enhanced query of a table entry
Enhanced(entry, keyword) ==
    IF entry.prefixed THEN keyword \o entry.enhanced ELSE entry.enhanced

\* for term, enhanced in indian_movie_terms.items(): the entries from the
\* k-th on, in the order given
RECURSIVE FirstTerm(_, _, _, _)
FirstTerm(table, keyword, keyword_lower, k) ==
    IF k > Len(table)
    THEN IF \E j \in 1..Len(entertainment_words) :
                Contains(keyword_lower, entertainment_words[j])
         THEN keyword \o india_bollywood
         ELSE keyword
    ELSE IF Contains(keyword_lower, table[k].term) THEN Enhanced(table[k], keyword)
    ELSE FirstTerm(table, keyword, keyword_lower, k + 1)

\* _enhance_keyword_for_indian_content, were the table to list its general
\* terms (movies, cinema) ahead of the named industries
_enhance_keyword_for_indian_content_GeneralFirst(keyword) ==
    FirstTerm(<<indian_movie_terms[5], indian_movie_terms[6], indian_movie_terms[1],
                indian_movie_terms[2], indian_movie_terms[3], indian_movie_terms[4]>>,
              keyword, Lower(keyword), 1)

_enhance_keyword_for_indian_content(keyword) ==
    FirstTerm(indian_movie_terms, keyword, Lower(keyword), 1)

\* the loop over data['articles'], were it to test the title alone
RECURSIVE MapItems_TitleOnly(_, _)
MapItems_TitleOnly(items, name) ==
    IF items = <<>> THEN <<>>
    ELSE LET it == Head(items)
             rest == MapItems_TitleOnly(Tail(items), name)
         IN IF it.title # <<>>
            THEN << [title |-> it.title, content |-> it.description,
                     source |-> name, publishedAt |-> it.publishedAt] >> \o rest
            ELSE rest

\* _fetch_from_newsapi / _fetch_from_gnews: the loop over data['articles']
RECURSIVE MapItems(_, _)
MapItems(items, name) ==
    IF items = <<>> THEN <<>>
    ELSE LET it == Head(items)
             rest == MapItems(Tail(items), name)
         IN IF it.title # <<>> /\ it.description # <<>>
            THEN << [title |-> it.title, content |-> it.description,
                     source |-> name, publishedAt |-> it.publishedAt] >> \o rest
            ELSE rest

\* an adapter call: [raises, error, articles]
_fetch_from_newsapi(payload) ==
    IF payload.ok
    THEN [raises |-> FALSE, error |-> "none", articles |-> MapItems(payload.items, "NewsAPI")]
    ELSE [raises |-> TRUE, error |-> payload.error, articles |-> <<>>]

_fetch_from_gnews(payload) ==
    IF payload.ok
    THEN [raises |-> FALSE, error |-> "none", articles |-> MapItems(payload.items, "GNews")]
    ELSE [raises |-> TRUE, error |-> payload.error, articles |-> <<>>]

Tag_FromOne(arts, i) == [k \in 1..Len(arts) |-> ("country_priority" :> i + 1) @@ arts[k]]

\* for article in gnews_articles: article['country_priority'] = i
Tag(arts, i) == [k \in 1..Len(arts) |-> ("country_priority" :> i) @@ arts[k]]

\* x.get('country_priority', 999)
GetCountryPriority(x) ==
    IF "country_priority" \in DOMAIN x THEN x.country_priority ELSE UnrankedSentinel

\* datetime.fromisoformat accepts the string (after Z -> +00:00 when it has a 'T')
FromIsoFormat(date_str) == date_str.form \in {"iso_z", "iso_date"}

\* datetime.strptime(date_str, '%Y-%m-%d %H:%M:%S') accepts the string
Strptime(date_str) == date_str.form = "strptime"

_parse_date_UndatedLatest(date_str) ==
    IF date_str.form = "empty" THEN 1000
    ELSE IF FromIsoFormat(date_str) THEN date_str.instant
    ELSE IF Strptime(date_str) THEN date_str.instant
    ELSE 1000

\* _parse_date(date_str).timestamp()
_parse_date(date_str) ==
    IF date_str.form = "empty" THEN DatetimeMin
    ELSE IF FromIsoFormat(date_str) THEN date_str.instant
    ELSE IF Strptime(date_str) THEN date_str.instant
    ELSE DatetimeMin

SortKey_DateFirst(x) == << 0 - _parse_date(x.publishedAt), GetCountryPriority(x) >>

\* the sort key: (country priority, -timestamp)
SortKey(x) == << GetCountryPriority(x), 0 - _parse_date(x.publishedAt) >>

KeyLess(a, b) == a[1] < b[1] \/ (a[1] = b[1] /\ a[2] < b[2])

\* an insertion that puts an element before the elements it ties with, as an
\* unstable sort may
RECURSIVE Insert_BeforeTies(_, _)
Insert_BeforeTies(s, x) ==
    IF s = <<>> THEN <<x>>
    ELSE IF ~KeyLess(SortKey(Head(s)), SortKey(x)) THEN <<x>> \o s
    ELSE <<Head(s)>> \o Insert_BeforeTies(Tail(s), x)

\* sorted(): stable, so an element goes behind the elements it ties with
RECURSIVE Insert(_, _)
Insert(s, x) ==
    IF s = <<>> THEN <<x>>
    ELSE IF KeyLess(SortKey(x), SortKey(Head(s))) THEN <<x>> \o s
    ELSE <<Head(s)>> \o Insert(Tail(s), x)

Sorted_InputOrder(s) == s

RECURSIVE Sorted(_)
Sorted(s) ==
    IF s = <<>> THEN <<>>
    ELSE Insert(Sorted(SubSeq(s, 1, Len(s) - 1)), s[Len(s)])

Slice_OneMore(s, n) == SubSeq(s, 1, IF Len(s) < n + 1 THEN Len(s) ELSE n + 1)

\* sorted_articles[:page_size]
Slice(s, n) == SubSeq(s, 1, IF Len(s) < n THEN Len(s) ELSE n)

\* the handler, were it `except urllib.error.URLError`: a read that times out
\* and a payload that does not decode raise something else
ExceptCatches_URLErrorOnly(error) == error = "transport"

ExceptCatches_NotTimeout(error) == error # "timeout"

\* except Exception as e: every failure of an adapter call is caught
ExceptCatches(error) == TRUE

\* The adapter calls of one fetch_news run, in program order: NewsAPI, the
\* GNews loop over (countries_list or [None]) and, when countries_list is
\* empty, the general GNews call.  tagged tells whether the call's articles
\* get country_priority = tag.
CallPlan(countries_list) ==
    LET targets == IF countries_list # <<>> THEN countries_list ELSE <<None>>
    IN  << [adapter |-> "newsapi", country |-> None, tagged |-> FALSE, tag |-> 0] >>
        \o [k \in 1..Len(targets) |->
              [adapter |-> "gnews", country |-> targets[k], tagged |-> TRUE, tag |-> k - 1]]
        \o (IF countries_list = <<>>
            THEN << [adapter |-> "gnews", country |-> None, tagged |-> FALSE, tag |-> 0] >>
            ELSE <<>>)

\* Runs the calls of the plan from the k-th on.  st = [all_articles, calls,
\* raised]; an exception no handler catches ends the run.
RECURSIVE RunCalls(_, _, _, _)
RunCalls(plan, resp, k, st) ==
    IF k > Len(plan) THEN st
    ELSE LET c == plan[k]
             r == IF c.adapter = "newsapi" THEN _fetch_from_newsapi(resp[k])
                  ELSE _fetch_from_gnews(resp[k])
             entry == [adapter |-> c.adapter, country |-> c.country,
                       failed |-> r.raises, returned |-> Len(r.articles)]
             got == IF c.tagged THEN Tag(r.articles, c.tag) ELSE r.articles
         IN IF r.raises /\ ~ExceptCatches(r.error)
            THEN [all_articles |-> st.all_articles,
                  calls |-> Append(st.calls, entry), raised |-> TRUE]
            ELSE RunCalls(plan, resp, k + 1,
                          [all_articles |-> st.all_articles \o got,
                           calls |-> Append(st.calls, entry), raised |-> FALSE])

\* fetch_news, from the country argument, the page size and the providers'
\* answers: [all_articles, calls, raised, result]
FetchNews(c, n, resp) ==
    LET st == RunCalls(CallPlan(CountriesList(c)), resp, 1,
                       [all_articles |-> <<>>, calls |-> <<>>, raised |-> FALSE])
    IN  [all_articles |-> st.all_articles, calls |-> st.calls, raised |-> st.raised,
         result |-> IF st.raised \/ st.all_articles = <<>> THEN <<>>
                    ELSE Slice(Sorted(st.all_articles), n)]

NumCalls(c) == Len(CallPlan(CountriesList(c)))

-----------------------------------------------------------------------------
(* utils/validators.py *)

valid_categories ==
    {"general", "business", "entertainment", "health", "science", "sports", "technology"}

valid_countries ==
    {"us", "in", "uk", "fr", "de", "ca", "au", "jp", "kr", "cn", "br", "mx", "it", "es"}

valid_languages == {"en", "hi", "te", "ta", "bn", "fr", "es", "de"}

\* str.lower() on the parameter values of the model
LowerCode(v) ==
    IF v = "Sports" THEN "sports"
    ELSE IF v = "IN" THEN "in"
    ELSE IF v = "HI" THEN "hi"
    ELSE v

\* validate_news_params, were it to leave the country codes unchecked
validate_news_params_CountryUnchecked(args) ==
    LET countries == IF args.country = NoCountry \/ args.country = <<"">> THEN <<>>
                     ELSE [k \in 1..Len(args.country) |-> LowerCode(Strip(args.country[k]))]
    IN  IF args.category # None /\ LowerCode(args.category) \notin valid_categories
        THEN [raises |-> TRUE, params |-> args]
        ELSE IF args.language \notin valid_languages
        THEN [raises |-> TRUE, params |-> args]
        ELSE [raises |-> FALSE,
              params |-> [category |-> IF args.category # None
                                       THEN LowerCode(args.category) ELSE None,
                          country |-> IF countries # <<>> THEN countries ELSE NoCountry,
                          language |-> LowerCode(args.language)]]

\* validate_news_params: [raises, params]; raises is the ValueError
validate_news_params(args) ==
    LET countries == IF args.country = NoCountry \/ args.country = <<"">> THEN <<>>
                     ELSE [k \in 1..Len(args.country) |-> LowerCode(Strip(args.country[k]))]
    IN  IF args.category # None /\ LowerCode(args.category) \notin valid_categories
        THEN [raises |-> TRUE, params |-> args]
        ELSE IF \E k \in 1..Len(countries) : countries[k] \notin valid_countries
        THEN [raises |-> TRUE, params |-> args]
        ELSE IF args.language \notin valid_languages
        THEN [raises |-> TRUE, params |-> args]
        ELSE [raises |-> FALSE,
              params |-> [category |-> IF args.category # None
                                       THEN LowerCode(args.category) ELSE None,
                          country |-> IF countries # <<>> THEN countries ELSE NoCountry,
                          language |-> LowerCode(args.language)]]

-----------------------------------------------------------------------------
(* app.py *)

\* summarize_text(self, text, max_length: int = 150, ...)
SummarizeDefaultMax == 150
\* ai_service.summarize_text(content, max_length=80), create_simple_summary(content, max_length=80)
ConciseMax == 80
\* page_size=10  # Get more articles for follow-up
TopicPageSize == 10
\* the loop body of a handler, were it to take the fallback engine for an
\* article whose summarization failed
ProcessArticle_FallbackOnFailure(article, target_language, ai, loaded, mode, out) ==
    LET content == article.content
        max_length == IF mode = "full" THEN SummarizeDefaultMax ELSE ConciseMax
        advanced == ai /\ out.summarize = "ok"
        s1 == summarize_text(content, max_length, out.summarize)
        s2 == IF target_language # "en"
              THEN translate_text(s1.value, target_language, loaded, out.translate)
              ELSE s1
        se == analyze_sentiment(content, out.sentiment)
        f1 == create_simple_summary(content,
                  IF mode = "full" THEN SimpleSummaryDefault ELSE ConciseMax)
        summary == IF advanced THEN s2.value ELSE f1
        sentiment == IF advanced THEN se.value ELSE create_simple_sentiment(content)
        base == [title |-> article.title, summary |-> summary, sentiment |-> sentiment,
                 source |-> article.source, publishedAt |-> article.publishedAt,
                 language |-> target_language]
    IN  [raises |-> FALSE,
         value |-> IF mode = "full" THEN ("content" :> content) @@ base ELSE base]

\* The body of the per-article try block.  concise and mode tell the handlers
\* apart: /news and /news/topic ("full") keep the content and do not
\* translate in the fallback branch; /getnews and /nlp ("concise") do.
\* out = [summarize, sentiment, translate] is what the pipelines do when
\* asked.  The result is [raises, value].
ProcessArticle(article, target_language, ai, loaded, mode, out) ==
    LET content == article.content
        max_length == IF mode = "full" THEN SummarizeDefaultMax ELSE ConciseMax
        s1 == summarize_text(content, max_length, out.summarize)
        s2 == IF target_language # "en"
              THEN translate_text(s1.value, target_language, loaded, out.translate)
              ELSE s1
        se == analyze_sentiment(content, out.sentiment)
        f1 == create_simple_summary(content,
                  IF mode = "full" THEN SimpleSummaryDefault ELSE ConciseMax)
        f2 == IF mode = "concise" /\ target_language # "en"
              THEN translate_to_language(f1, target_language)
              ELSE f1
        summary == IF ai THEN s2.value ELSE f2
        sentiment == IF ai THEN se.value ELSE create_simple_sentiment(content)
        base == [title |-> article.title, summary |-> summary, sentiment |-> sentiment,
                 source |-> article.source, publishedAt |-> article.publishedAt,
                 language |-> target_language]
    IN  [raises |-> ai /\ (s1.raises \/ s2.raises \/ se.raises),
         value |-> IF mode = "full" THEN ("content" :> content) @@ base ELSE base]

\* for article in articles: try: ... processed_articles.append(...)
\*                          except Exception: continue
RECURSIVE ProcessArticles(_, _, _, _, _, _)
ProcessArticles(arts, target_language, ai, loaded, mode, outs) ==
    IF arts = <<>> THEN <<>>
    ELSE LET r == ProcessArticle(Head(arts), target_language, ai, loaded, mode, Head(outs))
             rest == ProcessArticles(Tail(arts), target_language, ai, loaded, mode, Tail(outs))
         IN  IF r.raises THEN rest ELSE <<r.value>> \o rest

Absent == "absent"

\* a response: the HTTP status, the article sequence of the body, the digest
\* of the body (formatted_response) and its message, Absent when the body has
\* no such key
Response(status, arts, digest, message) ==
    [status |-> status, articles |-> arts, formatted_response |-> digest,
     message |-> message]

\* extract_news_intent on a text, given as the set of the terms that occur
\* in it
news_keywords ==
    {"news", "latest", "update", "headlines", "breaking", "show", "get", "tell", "give"}

intent_languages ==
    << <<"hindi", "hi">>, <<"telugu", "te">>, <<"tamil", "ta">>, <<"bengali", "bn">>,
       <<"french", "fr">>, <<"spanish", "es">>, <<"german", "de">> >>

intent_countries ==
    << <<"india", "in">>, <<"indian", "in">>, <<"america", "us">>, <<"usa", "us">>,
       <<"britain", "uk">>, <<"uk", "uk">>, <<"france", "fr">>, <<"germany", "de">> >>

\* the value of the first table entry whose name occurs in the text
FirstMatch(table, text, default) ==
    LET hits == { k \in 1..Len(table) : table[k][1] \in text }
    IN  IF hits = {} THEN default ELSE table[SetMin(hits)][2]

extract_news_intent(text) ==
    IF text \cap news_keywords # {}
    THEN [intent |-> "get_news",
          params |-> [category |-> None,
                      country |-> LET c == FirstMatch(intent_countries, text, None)
                                  IN  IF c = None THEN NoCountry ELSE <<c>>,
                      language |-> FirstMatch(intent_languages, text, "en")]]
    ELSE [intent |-> "unknown",
          params |-> [category |-> None, country |-> NoCountry, language |-> "en"]]

-----------------------------------------------------------------------------
(* The inputs of the handler runs *)

\* "Latest India news."  (shorter than 50 characters)
ShortContent == <<"L", "a", "t", "e", "s", "t", " ", "I", "n", "d", "i", "a", " ", "n", "e", "w", "s", ".">>
\* 60 characters
MidContent == <<"A", "m", "a", "z", "i", "n", "g", " ", "b", "r", "e", "a", "k", "t", "h", "r", "o", "u", "g", "h", " ">> \o Rep("y", 39)
\* 234 characters
LongContent == <<"G", "o", "o", "d", " ", "g", "r", "o", "w", "t", "h", ".", " ", "B", "a", "d", " ", "c", "r", "i", "s", "i", "s", " ", "a", "n", "d", " ", "l", "o", "s", "s", ".", " ">> \o Rep("x", 200)

HandlerItems ==
    { [title |-> Txt_title, description |-> ShortContent,
       publishedAt |-> [form |-> "garbage", instant |-> 0]],
      [title |-> Txt_title, description |-> MidContent,
       publishedAt |-> [form |-> "strptime", instant |-> 1]],
      [title |-> Txt_title, description |-> LongContent,
       publishedAt |-> [form |-> "iso_z", instant |-> 2]] }

RECURSIVE TotalItems(_)
TotalItems(resp) ==
    IF resp = <<>> THEN 0 ELSE Len(Head(resp).items) + TotalItems(Tail(resp))

\* a provider answers a handler run with one item at most, the providers
\* together with MaxBatch items at most
HandlerResponses(c) ==
    { resp \in [1..NumCalls(c) -> Payloads(HandlerItems, 1, {"timeout"})] :
        TotalItems(resp) <= MaxBatch }

\* the query arguments of /news, /news/topic and /getnews
HandlerArgs ==
    { [category |-> None, country |-> c, language |-> l] :
        c \in {NoCountry, <<"in">>, <<"zz">>}, l \in {"en", "hi", "ta", "xx"} }
    \cup { [category |-> "bogus", country |-> NoCountry, language |-> "en"],
           [category |-> "Sports", country |-> <<"IN">>, language |-> "en"],
           [category |-> None, country |-> <<"in", "zz">>, language |-> "en"] }

\* the /nlp texts, each the set of the terms that occur in it
NlpTexts ==
    { {}, {"hello"}, {"news"}, {"show", "hindi", "tamil"}, {"latest", "tamil", "india", "indian"} }

\* what the sentiment pipeline can do: answer in either label scheme, or raise
SentimentAnswers ==
    { [raises |-> FALSE, label |-> <<"L", "A", "B", "E", "L", "_", "0">>],
      [raises |-> FALSE, label |-> <<"P", "O", "S", "I", "T", "I", "V", "E">>],
      [raises |-> TRUE, label |-> <<>>] }

NoOutcome ==
    [summarize |-> "ok", sentiment |-> [raises |-> FALSE, label |-> <<>>], translate |-> "ok"]

\* what the pipelines can do for one article; the translation pipeline only
\* when it is asked
Outcomes(ai, loaded, target_language) ==
    IF ~ai THEN {NoOutcome}
    ELSE { [summarize |-> a, sentiment |-> b, translate |-> c] :
             a \in {"ok", "fail"}, b \in SentimentAnswers,
             c \in IF target_language # "en" /\ target_language \in loaded
                   THEN {"ok", "fail"} ELSE {"ok"} }

NoFetch == [all_articles |-> <<>>, calls |-> <<>>, raised |-> FALSE, result |-> <<>>]

-----------------------------------------------------------------------------
(* The state machine *)

RequestScopeInit ==
    /\ pc = "idle"
    /\ op = "none"
    /\ request = None
    /\ params = None
    /\ country = NoCountry
    /\ page_size = DefaultPageSize
    /\ responses = <<>>
    /\ adapter_calls = <<>>
    /\ all_articles = <<>>
    /\ articles = <<>>
    /\ raised = FALSE
    /\ backend = <<>>
    /\ processed_articles = <<>>
    /\ response = None

\* NewsService on its own: app.py is not loaded
Init ==
    /\ AI_AVAILABLE = FALSE
    /\ translators = {}
    /\ RequestScopeInit

\* app.py after start-up: AIService() either loaded, with a translator for
\* every language of translation_models, or could not be imported
InitApp ==
    /\ \/ AI_AVAILABLE = FALSE /\ translators = {}
       \/ AI_AVAILABLE = TRUE /\ translators = translation_models
    /\ RequestScopeInit

\* the state a run leaves behind
Ran(o, req, prm, c, n, resp, f, outs, processed, rsp) ==
    /\ pc' = "done"
    /\ op' = o
    /\ request' = req
    /\ params' = prm
    /\ country' = c
    /\ page_size' = n
    /\ responses' = resp
    /\ adapter_calls' = f.calls
    /\ all_articles' = f.all_articles
    /\ articles' = f.result
    /\ raised' = f.raised
    /\ backend' = outs
    /\ processed_articles' = processed
    /\ response' = rsp
    /\ UNCHANGED <<AI_AVAILABLE, translators>>

\* a direct call of NewsService.fetch_news
fetch_news ==
    /\ pc = "idle"
    /\ \E c \in CountryParams, n \in PageSizes :
         \E resp \in [1..NumCalls(c) -> Payloads(RankingItems, MaxPerCall, FailureKinds)] :
            Ran("fetch_news", None, None, c, n, resp, FetchNews(c, n, resp), <<>>, <<>>, None)

\* what each handler answers once the fetch and the enrichment are over
get_news_response(f, processed) ==
    IF f.raised THEN Response(500, <<>>, Absent, "Internal server error occurred")
    ELSE IF f.result = <<>> THEN Response(200, <<>>, Absent, Absent)
    ELSE LET r == format_chat_response(processed)
         IN  Response(200, r.data, r.formatted_response, Absent)

get_more_news_on_topic_response(f, processed) ==
    IF f.raised THEN Response(500, <<>>, Absent, "Failed to fetch more news for topic")
    ELSE IF f.result = <<>> THEN Response(200, <<>>, Absent, "No more news found for topic")
    ELSE LET r == format_chat_response(processed)
         IN  Response(200, r.data, r.formatted_response, Absent)

puch_ai_get_news_response(f, processed) ==
    IF f.raised THEN Response(500, <<>>, Absent, "Failed to fetch news")
    ELSE IF f.result = <<>>
    THEN Response(200, <<>>, Absent, "No news found for the specified criteria")
    ELSE Response(200, processed, Absent, "Found news articles")

natural_language_processor_response(f, processed) ==
    IF f.raised THEN Response(500, <<>>, Absent, "Failed to process natural language request")
    ELSE Response(200, processed, Absent, "Found news articles")

\* the response of handler o
HandlerResponse(o, f, processed) ==
    CASE o = "get_news" -> get_news_response(f, processed)
      [] o = "get_more_news_on_topic" -> get_more_news_on_topic_response(f, processed)
      [] o = "puch_ai_get_news" -> puch_ai_get_news_response(f, processed)
      [] o = "natural_language_processor" ->
            natural_language_processor_response(f, processed)

\* The part the four handlers share: fetch, then enrich each ranked article.
FetchAndProcess(o, req, prm, n, mode) ==
    \E resp \in HandlerResponses(prm.country) :
        LET f == FetchNews(prm.country, n, resp)
        IN  \E outs \in [1..Len(f.result) -> Outcomes(AI_AVAILABLE, translators, prm.language)] :
                LET processed == ProcessArticles(f.result, prm.language, AI_AVAILABLE,
                                                 translators, mode, outs)
                IN  Ran(o, req, prm, prm.country, n, resp, f, outs, processed,
                        HandlerResponse(o, f, processed))

\* GET /news
get_news ==
    /\ pc = "idle"
    /\ \E args \in HandlerArgs :
         LET v == validate_news_params(args)
         IN  IF v.raises
             THEN Ran("get_news", args, None, NoCountry, DefaultPageSize, <<>>, NoFetch, <<>>, <<>>,
                      Response(400, <<>>, Absent, "Invalid parameter"))
             ELSE FetchAndProcess("get_news", args, v.params, DefaultPageSize, "full")

\* GET /news/topic/<topic>
get_more_news_on_topic ==
    /\ pc = "idle"
    /\ \E args \in HandlerArgs :
         LET v == validate_news_params(args)
         IN  IF v.raises
             THEN Ran("get_more_news_on_topic", args, None, NoCountry, DefaultPageSize, <<>>,
                      NoFetch, <<>>, <<>>,
                      Response(500, <<>>, Absent, "Failed to fetch more news for topic"))
             ELSE FetchAndProcess("get_more_news_on_topic", args, v.params, TopicPageSize,
                                  "full")

\* GET or POST /getnews
puch_ai_get_news ==
    /\ pc = "idle"
    /\ \E args \in HandlerArgs :
         LET v == validate_news_params(args)
         IN  IF v.raises
             THEN Ran("puch_ai_get_news", args, None, NoCountry, DefaultPageSize, <<>>, NoFetch,
                      <<>>, <<>>, Response(400, <<>>, Absent, "Invalid parameter"))
             ELSE FetchAndProcess("puch_ai_get_news", args, v.params, DefaultPageSize,
                                  "concise")

\* POST /nlp
natural_language_processor ==
    /\ pc = "idle"
    /\ \E text \in NlpTexts :
         LET intent_result == extract_news_intent(text)
         IN  IF text = {}
             THEN Ran("natural_language_processor", text, None, NoCountry, DefaultPageSize, <<>>,
                      NoFetch, <<>>, <<>>,
                      Response(400, <<>>, Absent, "No text provided for processing"))
             ELSE IF intent_result.intent # "get_news"
             THEN Ran("natural_language_processor", text, None, NoCountry, DefaultPageSize, <<>>,
                      NoFetch, <<>>, <<>>,
                      Response(400, <<>>, Absent, "Could not understand the request"))
             ELSE FetchAndProcess("natural_language_processor", text, intent_result.params,
                                  DefaultPageSize, "concise")

\* the request is over: nothing of it is kept
Return ==
    /\ pc = "done"
    /\ pc' = "idle"
    /\ op' = "none"
    /\ request' = None
    /\ params' = None
    /\ country' = NoCountry
    /\ page_size' = DefaultPageSize
    /\ responses' = <<>>
    /\ adapter_calls' = <<>>
    /\ all_articles' = <<>>
    /\ articles' = <<>>
    /\ raised' = FALSE
    /\ backend' = <<>>
    /\ processed_articles' = <<>>
    /\ response' = None
    /\ UNCHANGED <<AI_AVAILABLE, translators>>

Next == fetch_news \/ Return

Spec == Init /\ [][Next]_vars

NextApp ==
    \/ get_news
    \/ get_more_news_on_topic
    \/ puch_ai_get_news
    \/ natural_language_processor
    \/ Return

SpecApp == InitApp /\ [][NextApp]_vars

-----------------------------------------------------------------------------
(* Vocabulary of the properties *)

\* the priority an article counts with: its tag, or 999 when it has none
PriorityOf(x) == IF "country_priority" \in DOMAIN x THEN x.country_priority ELSE 999

Parsable(p) == p.form \in {"iso_z", "iso_date", "strptime"}

\* the publish time an article counts with: unparsable and empty timestamps
\* are the earliest instant
TimeOf(x) == IF Parsable(x.publishedAt) THEN x.publishedAt.instant ELSE DatetimeMin

Count(s, x) == Cardinality({ k \in 1..Len(s) : s[k] = x })

Range(s) == { s[k] : k \in 1..Len(s) }

ValidItems(items) ==
    { k \in 1..Len(items) : items[k].title # <<>> /\ items[k].description # <<>> }

\* the number of articles the calls before the k-th put into the merged list
RECURSIVE Offset(_, _)
Offset(calls, k) == IF k <= 1 THEN 0 ELSE Offset(calls, k - 1) + calls[k - 1].returned

\* the positions of the merged list that hold the k-th call's articles
Segment(calls, k) == (Offset(calls, k) + 1)..(Offset(calls, k) + calls[k].returned)

FetchDone == pc = "done" /\ adapter_calls # <<>>

GnewsCalls == { k \in 1..Len(adapter_calls) : adapter_calls[k].adapter = "gnews" }

-----------------------------------------------------------------------------
(* Properties *)

\* C1: with a non-empty country priority list, no returned article of
\* priority i stands behind one of priority j < i (untagged = 999),
\* whatever the timestamps.
C1_PriorityOrder ==
    (FetchDone /\ CountriesList(country) # <<>>) =>
        \A a, b \in 1..Len(articles) :
            a < b => PriorityOf(articles[a]) <= PriorityOf(articles[b])

\* a lower-priority-number article that is older stands before a newer one
C1_Witness ==
    /\ FetchDone /\ CountriesList(country) # <<>>
    /\ \E a, b \in 1..Len(articles) :
         /\ a < b
         /\ PriorityOf(articles[a]) < PriorityOf(articles[b])
         /\ TimeOf(articles[a]) < TimeOf(articles[b])

C3_PageSize ==
    FetchDone =>
        /\ Len(articles) <= page_size
        /\ Len(all_articles) <= page_size =>
             /\ Len(articles) = Len(all_articles)
             /\ \A x \in Range(all_articles) \cup Range(articles) :
                    Count(articles, x) = Count(all_articles, x)

\* one run truncated a longer merged list ...
C3_Witness ==
    /\ FetchDone
    /\ Len(all_articles) > page_size
    /\ Len(articles) = page_size

\* ... and another returned a merged list with a duplicate whole
C3_WitnessAll ==
    /\ FetchDone
    /\ Len(all_articles) <= page_size
    /\ \E x \in Range(all_articles) : Count(all_articles, x) = 2 /\ Count(articles, x) = 2

\* C4: whatever adapter calls fail, fetch_news does not raise, makes every
\* adapter call of the run, and the merged list holds exactly the articles of
\* the calls that succeeded.
C4_FailuresAbsorbed ==
    (pc = "done" /\ responses # <<>>) =>
        /\ ~raised
        /\ Len(adapter_calls) = Len(responses)
        /\ \A k \in 1..Len(responses) :
             /\ adapter_calls[k].failed = ~responses[k].ok
             /\ responses[k].ok =>
                  /\ adapter_calls[k].returned = Cardinality(ValidItems(responses[k].items))
                  /\ \A j \in ValidItems(responses[k].items) :
                       \E p \in Segment(adapter_calls, k) :
                          /\ all_articles[p].title = responses[k].items[j].title
                          /\ all_articles[p].content = responses[k].items[j].description
                          /\ all_articles[p].publishedAt = responses[k].items[j].publishedAt
        /\ Len(all_articles) = Offset(adapter_calls, Len(adapter_calls) + 1)

\* every kind of failure hit a call, and a later call's articles were merged
C4_Witness ==
    /\ pc = "done" /\ Len(responses) = 3
    /\ ~responses[1].ok /\ responses[1].error = "timeout"
    /\ ~responses[2].ok /\ responses[2].error = "decode"
    /\ responses[3].ok /\ Len(responses[3].items) = 2
    /\ Len(articles) = 2

\* C5: for a non-empty country list c0..cn-1 the calls are NewsAPI once
\* without a country, then GNews once per country in list order; the articles
\* of the call for c_k carry priority k and the NewsAPI articles carry none.
C5_CallsAndTags ==
    (FetchDone /\ CountriesList(country) # <<>>) =>
        LET L == CountriesList(country)
        IN  /\ Len(adapter_calls) = 1 + Len(L)
            /\ adapter_calls[1].adapter = "newsapi"
            /\ adapter_calls[1].country = None
            /\ \A p \in Segment(adapter_calls, 1) :
                   /\ "country_priority" \notin DOMAIN all_articles[p]
                   /\ all_articles[p].source = "NewsAPI"
            /\ \A k \in 1..Len(L) :
                   /\ adapter_calls[k + 1].adapter = "gnews"
                   /\ adapter_calls[k + 1].country = L[k]
                   /\ \A p \in Segment(adapter_calls, k + 1) :
                          /\ "country_priority" \in DOMAIN all_articles[p]
                          /\ all_articles[p].country_priority = k - 1
                          /\ all_articles[p].source = "GNews"

\* two countries, and every one of the three calls returned articles
C5_Witness ==
    /\ FetchDone
    /\ CountriesList(country) = <<"us", "in">>
    /\ \A k \in 1..3 : adapter_calls[k].returned > 0
    /\ \E x \in Range(all_articles) : PriorityOf(x) = 1

\* C6: with no country given, GNews is called exactly once, without a
\* country, and its articles carry no priority.
C6_UnscopedSecondaryOnce ==
    (FetchDone /\ CountriesList(country) = <<>>) =>
        /\ Cardinality(GnewsCalls) = 1
        /\ \A k \in GnewsCalls : adapter_calls[k].country = None
        /\ \A x \in Range(all_articles) :
               x.source = "GNews" => "country_priority" \notin DOMAIN x

\* C7: country priority in,us and page size 5; NewsAPI returns 2 articles,
\* GNews 1 for "in" and 2 for "us": the result is the "in" article, the two
\* "us" articles, then the two NewsAPI articles, the newer first.
C7_Scenario ==
    (/\ FetchDone
     /\ CountriesList(country) = <<"in", "us">>
     /\ page_size = 5
     /\ \A k \in 1..3 : responses[k].ok
     /\ Len(responses[1].items) = 2
     /\ Len(responses[2].items) = 1
     /\ Len(responses[3].items) = 2) =>
        LET in1 == responses[2].items[1]
            n1 == responses[1].items[1]
            n2 == responses[1].items[2]
        IN  /\ Len(articles) = 5
            /\ articles[1].source = "GNews" /\ PriorityOf(articles[1]) = 0
            /\ articles[1].publishedAt = in1.publishedAt
            /\ \A a \in {2, 3} : articles[a].source = "GNews" /\ PriorityOf(articles[a]) = 1
            /\ { articles[2].publishedAt, articles[3].publishedAt }
                 = { responses[3].items[1].publishedAt, responses[3].items[2].publishedAt }
            /\ \A a \in {4, 5} : articles[a].source = "NewsAPI" /\ PriorityOf(articles[a]) = 999
            /\ TimeOf(articles[4]) >= TimeOf(articles[5])
            /\ { articles[4].publishedAt, articles[5].publishedAt }
                 = { n1.publishedAt, n2.publishedAt }

\* the scenario with the older NewsAPI article listed first and the "in"
\* article the oldest of all
C7_Witness ==
    /\ FetchDone
    /\ CountriesList(country) = <<"in", "us">>
    /\ page_size = 5
    /\ \A k \in 1..3 : responses[k].ok
    /\ Len(responses[1].items) = 2 /\ Len(responses[2].items) = 1
    /\ Len(responses[3].items) = 2
    /\ responses[1].items[1].publishedAt.instant = 1
    /\ responses[1].items[2].publishedAt.instant = 2
    /\ responses[2].items[1].publishedAt.form = "empty"
    /\ Len(articles) = 5
    /\ articles[4].publishedAt.instant = 2

HandlerOps ==
    {"get_news", "get_more_news_on_topic", "puch_ai_get_news", "natural_language_processor"}

\* a handler ran and called fetch_news
Aggregated == pc = "done" /\ op \in HandlerOps /\ adapter_calls # <<>>

\* the summarization pipeline was asked about the k-th ranked article and raised
SummarizeFailed(k) ==
    /\ backend[k].summarize = "fail"
    /\ Len(StripText(articles[k].content)) >= 50

\* the sentiment pipeline raised on the k-th ranked article
SentimentFailed(k) == backend[k].sentiment.raises

\* the original text, truncated
Truncated(text) == IF Len(text) > 200 THEN SubSeq(text, 1, 200) \o <<".", ".", ".">> ELSE text

\* the target language of the request
TargetLanguage ==
    IF op = "natural_language_processor"
    THEN IF "hindi" \in request THEN "hi"
         ELSE IF "telugu" \in request THEN "te"
         ELSE IF "tamil" \in request THEN "ta"
         ELSE "en"
    ELSE request.language

\* what the k-th summary becomes on its way out: the translation, when the
\* target language is not English and its translator is loaded and works
Translated(text, k) ==
    IF TargetLanguage # "en" /\ TargetLanguage \in translators /\ backend[k].translate = "ok"
    THEN PipelineTranslation(text, TargetLanguage)
    ELSE text

\* label and glyph pairs of the two strategies
GlyphPairs ==
    IF AI_AVAILABLE
    THEN { <<"positive", AIGlyph_positive>>, <<"negative", AIGlyph_negative>>,
           <<"neutral", AIGlyph_neutral>> }
    ELSE { <<"positive", Glyph_positive>>, <<"negative", Glyph_negative>>,
           <<"neutral", Glyph_neutral>> }

\* C8: on every entry point, when aggregation returns no articles the
\* response carries an empty article sequence and the fixed "no articles
\* found" digest of format_chat_response([]), and nothing is raised.
C8_EmptyAggregationDigest ==
    (Aggregated /\ articles = <<>>) =>
        /\ response.status = 200
        /\ response.articles = <<>>
        /\ response.formatted_response = format_chat_response(<<>>).formatted_response

C11_FallbackTranslates ==
    (Aggregated /\ ~AI_AVAILABLE /\ TargetLanguage # "en") =>
        /\ Len(processed_articles) = Len(articles)
        /\ \A k \in 1..Len(processed_articles) :
             processed_articles[k].summary =
                 translate_to_language(
                     create_simple_summary(articles[k].content, ConciseMax),
                     TargetLanguage)

-----------------------------------------------------------------------------
(* NewsService's methods on their own, over provider items of any shape *)

\* Items as a provider may send them: title or description may be '' (the
\* adapters' test `article.get(k)` treats a missing key, None and '' alike).
ProviderItems ==
    { [title |-> t, description |-> d, publishedAt |-> [form |-> "iso_z", instant |-> 1]] :
        t \in {Txt_title, <<>>}, d \in {Txt_description, <<>>} }
    \cup { [title |-> Txt_title, description |-> Txt_description,
            publishedAt |-> [form |-> "empty", instant |-> 0]] }

\* the state one adapter call leaves behind
AdapterRan(o, payload, r) ==
    Ran(o, None, None, NoCountry, DefaultPageSize, <<payload>>,
        [all_articles |-> r.articles, calls |-> <<>>, raised |-> r.raises, result |-> <<>>],
        <<>>, <<>>, None)

\* a call of NewsService._fetch_from_newsapi
fetch_from_newsapi ==
    /\ pc = "idle"
    /\ \E payload \in Payloads(ProviderItems, MaxPerCall, FailureKinds) :
         AdapterRan("_fetch_from_newsapi", payload, _fetch_from_newsapi(payload))

\* a call of NewsService._fetch_from_gnews
fetch_from_gnews ==
    /\ pc = "idle"
    /\ \E payload \in Payloads(ProviderItems, MaxPerCall, FailureKinds) :
         AdapterRan("_fetch_from_gnews", payload, _fetch_from_gnews(payload))

\* a call of NewsService.fetch_news whose providers answer with one item of
\* any shape at most
fetch_news_any_items ==
    /\ pc = "idle"
    /\ \E c \in {NoCountry, <<"in">>} :
         \E resp \in [1..NumCalls(c) -> Payloads(ProviderItems, 1, {"timeout"})] :
            Ran("fetch_news", None, None, c, DefaultPageSize, resp,
                FetchNews(c, DefaultPageSize, resp), <<>>, <<>>, None)

\* the most words a keyword of the runs has
MaxTerms == 3

\* words of the keywords: table terms in either case, the two halves of
\* 'indian movies', an entertainment word and a word that matches nothing
KeywordVocabulary ==
    { <<"b", "o", "l", "l", "y", "w", "o", "o", "d">>,
      <<"T", "o", "l", "l", "y", "w", "o", "o", "d">>,
      <<"M", "O", "V", "I", "E", "S">>,
      <<"i", "n", "d", "i", "a", "n">>,
      <<"c", "i", "n", "e", "m", "a">>,
      <<"a", "c", "t", "o", "r">>,
      <<"t", "e", "c", "h">> }

Keywords == { Join(ws, <<" ">>) : ws \in SeqsUpTo(KeywordVocabulary, MaxTerms) }

\* a call of NewsService._enhance_keyword_for_indian_content(keyword)
enhance_keyword_for_indian_content ==
    /\ pc = "idle"
    /\ \E keyword \in Keywords :
         Ran("_enhance_keyword_for_indian_content", [keyword |-> keyword], None, NoCountry,
             DefaultPageSize, <<>>, NoFetch, <<>>, <<>>,
             _enhance_keyword_for_indian_content(keyword))

NextNewsService ==
    \/ fetch_from_newsapi
    \/ fetch_from_gnews
    \/ fetch_news_any_items
    \/ enhance_keyword_for_indian_content
    \/ Return

SpecNewsService == Init /\ [][NextNewsService]_vars

\* the provider items that have both a title and a description, in order
Admissible(items) == SelectSeq(items, LAMBDA it : it.title # <<>> /\ it.description # <<>>)

AdapterOps == {"_fetch_from_newsapi", "_fetch_from_gnews"}

\* C12: every article an adapter returns, and so every article of a
\* fetch_news result, has a non-empty title and a non-empty content; an item
\* missing either is dropped and the other items of the response are kept,
\* in order.
C12_AdmittedArticlesComplete ==
    /\ (pc = "done" /\ op \in AdapterOps /\ ~raised) =>
          LET kept == Admissible(responses[1].items)
          IN  /\ Len(all_articles) = Len(kept)
              /\ \A k \in 1..Len(kept) :
                   /\ all_articles[k].title = kept[k].title
                   /\ all_articles[k].content = kept[k].description
                   /\ all_articles[k].publishedAt = kept[k].publishedAt
    /\ (pc = "done" /\ op \in AdapterOps \cup {"fetch_news"}) =>
          /\ \A k \in 1..Len(all_articles) :
               all_articles[k].title # <<>> /\ all_articles[k].content # <<>>
          /\ \A k \in 1..Len(articles) :
               articles[k].title # <<>> /\ articles[k].content # <<>>

\* an adapter met a well-formed item after one without a description: it
\* returned the second alone
C12_Witness ==
    /\ pc = "done" /\ op = "_fetch_from_gnews"
    /\ Len(responses[1].items) = 2
    /\ responses[1].items[1].description = <<>>
    /\ responses[1].items[2].title # <<>> /\ responses[1].items[2].description # <<>>
    /\ Len(all_articles) = 1

-----------------------------------------------------------------------------
(* The text functions on their own, over small texts *)

\* the longest text a function is applied to
MaxText == 5

\* texts of sentences: a letter, the full stop and the blank
SentenceChars == {"a", ".", " "}

SentenceTexts == SeqsUpTo(SentenceChars, MaxText)

\* the max_length arguments: every limit a text of the runs can exceed
SummaryLimits == 0..(MaxText - 1)

\* the state a call of function o on input leaves behind
Called(o, input, output) ==
    Ran(o, input, None, NoCountry, DefaultPageSize, <<>>, NoFetch, <<>>, <<>>, output)

\* a call of create_simple_summary(content, max_length)
call_create_simple_summary ==
    /\ pc = "idle"
    /\ \E content \in SentenceTexts, max_length \in SummaryLimits :
         Called("create_simple_summary", [content |-> content, max_length |-> max_length],
                create_simple_summary(content, max_length))

\* the most words a text of the sentiment runs has
MaxWords == 4

\* words of the sentiment runs: keywords of either table, one in capitals,
\* two inside a longer word, and a word of neither table
SentimentVocabulary ==
    { <<"g", "o", "o", "d">>, <<"G", "R", "E", "A", "T">>, <<"w", "i", "n", "n", "e", "r">>,
      <<"b", "a", "d", "g", "e">>, <<"l", "o", "s", "s">>, <<"n", "e", "w", "s">> }

SentimentTexts == { Join(ws, <<" ">>) : ws \in SeqsUpTo(SentimentVocabulary, MaxWords) }

\* a call of create_simple_sentiment(content)
call_create_simple_sentiment ==
    /\ pc = "idle"
    /\ \E content \in SentimentTexts :
         Called("create_simple_sentiment", [content |-> content],
                create_simple_sentiment(content))

\* words of the translation runs: two the dictionaries know, one of them in
\* capitals and with a full stop, one they do not know, and the empty word,
\* which puts two blanks in a row
TranslationVocabulary ==
    { <<"n", "e", "w", "s">>, <<"I", "n", "d", "i", "a", ".">>, <<"x">>, <<>> }

TranslationTexts == { Join(ws, <<" ">>) : ws \in SeqsUpTo(TranslationVocabulary, MaxWords) }

\* target languages: English, two with a dictionary and a translator, one with
\* a translator alone, one the validator knows and one nobody knows
TargetLanguages == {"en", "hi", "te", "fr", "ta", "xx"}

\* the translators _init_translators managed to load
LoadedTables == { {}, {"hi", "fr"}, translation_models }

\* a call of translate_to_language(text, target_language)
call_translate_to_language ==
    /\ pc = "idle"
    /\ \E text \in TranslationTexts, target_language \in TargetLanguages :
         Called("translate_to_language",
                [text |-> text, target_language |-> target_language, loaded |-> {}],
                [raises |-> FALSE, value |-> translate_to_language(text, target_language)])

\* a call of AIService.translate_text(text, target_language)
call_translate_text ==
    /\ pc = "idle"
    /\ \E text \in TranslationTexts, target_language \in TargetLanguages,
          loaded \in LoadedTables, pipeline \in {"ok", "fail"} :
         Called("translate_text",
                [text |-> text, target_language |-> target_language, loaded |-> loaded],
                translate_text(text, target_language, loaded, pipeline))

\* the instant of datetime.now() in the runs of format_time_ago, in seconds
Now == 200000

\* ages of the runs, in seconds: around each threshold, 25 hours, two days,
\* and a timestamp one hour ahead of the clock
Ages == { 0 - 3600, 0, 59, 60, 61, 3599, 3600, 3601, 7200, 86399, 86400, 90000, 172800 }

\* a call of format_time_ago(published_at)
call_format_time_ago ==
    /\ pc = "idle"
    /\ \E p \in PublishedAtValues, d \in Ages :
         LET published_at == [form |-> p.form,
                              instant |-> IF p.form \in {"empty", "garbage"} THEN 0 ELSE Now - d]
         IN  Called("format_time_ago", [published_at |-> published_at, now |-> Now],
                    format_time_ago(published_at, Now))

\* articles of the suggestion runs: texts with no topic term, with terms of
\* one topic, of two, in capitals, and with the term 'ai' inside a word
SuggestionArticles ==
    { [title |-> ti, content |-> c] :
        ti \in { <<"t">>, <<"T", "a", "m", "i", "l">> },
        c \in { <<"p", "l", "a", "i", "n">>,
                 <<"b", "o", "l", "l", "y", "w", "o", "o", "d">>,
                 <<"t", "e", "c", "h">>,
                 <<"c", "r", "i", "c", "k", "e", "t", " ", "m", "a", "t", "c", "h">>,
                 <<"F", "i", "l", "m", " ", "a", "c", "t", "o", "r">>,
                 <<"s", "a", "i", "d">>,
                 <<"T", "e", "l", "u", "g", "u", " ", "f", "o", "o", "t", "b", "a", "l", "l">> } }

\* a call of generate_follow_up_suggestions(articles)
call_generate_follow_up_suggestions ==
    /\ pc = "idle"
    /\ \E arts \in SeqsUpTo(SuggestionArticles, MaxBatch) :
         Called("generate_follow_up_suggestions", [articles |-> arts],
                generate_follow_up_suggestions(arts))

\* t in capital letters
Upper(t) ==
    [k \in 1..Len(t) |->
        IF \E c \in DOMAIN LowerTable : LowerTable[c] = t[k]
        THEN CHOOSE c \in DOMAIN LowerTable : LowerTable[c] = t[k]
        ELSE t[k]]

\* t with a capital first letter
Capitalised(t) == IF t = <<>> THEN t ELSE Upper(<<t[1]>>) \o Tail(t)

\* labels a sentiment pipeline answers: the six keys of the mapping in small
\* letters, in capitals and capitalised, and labels the mapping does not know
PipelineLabels ==
    LET keys == {Label_positive, Label_negative, Label_neutral, Label_0, Label_1, Label_2}
    IN  keys \cup { Upper(l) : l \in keys } \cup { Capitalised(l) : l \in keys }
        \cup { <<"l", "a", "b", "e", "l", "_", "3">>, <<"m", "i", "x", "e", "d">>,
               <<"P", "O", "S">>, <<>> }

\* what the sentiment pipeline does when called
SentimentPipelines ==
    { [raises |-> TRUE, label |-> <<>>] }
    \cup { [raises |-> FALSE, label |-> l] : l \in PipelineLabels }

\* a call of AIService.analyze_sentiment(text)
call_analyze_sentiment ==
    /\ pc = "idle"
    /\ \E text \in { <<>>, <<"a">>, <<" ">> }, pipeline \in SentimentPipelines :
         Called("analyze_sentiment", [text |-> text, pipeline |-> pipeline],
                analyze_sentiment(text, pipeline))

NextFunctions ==
    \/ call_create_simple_summary
    \/ call_create_simple_sentiment
    \/ call_translate_to_language
    \/ call_translate_text
    \/ call_analyze_sentiment
    \/ call_format_time_ago
    \/ call_generate_follow_up_suggestions
    \/ Return

SpecFunctions == Init /\ [][NextFunctions]_vars

\* function o has just been called
Applied(o) == pc = "done" /\ op = o

\* t ends with w
EndsWith(t, w) == Len(t) >= Len(w) /\ SubSeq(t, Len(t) - Len(w) + 1, Len(t)) = w

\* every sentence of the text, as '. ' separates them, is longer than n
AllSentencesExceed(t, n) ==
    LET sentences == Split(t, <<".", " ">>)
    IN  \A k \in 1..Len(sentences) : Len(sentences[k]) > n

\* C13 as claimed: create_simple_summary returns the content unchanged when
\* len(content) <= max_length, and for a content whose sentences are all
\* longer than max_length a string that ends with "..." and is no longer
\* than max_length.
C13_SummaryWithinLimit ==
    Applied("create_simple_summary") =>
        /\ Len(request.content) <= request.max_length => response = request.content
        /\ AllSentencesExceed(request.content, request.max_length) =>
             EndsWith(response, Ellipsis) /\ Len(response) <= request.max_length

\* C13 as amended: the same, the second part for max_length >= 3 only.
C13_SummaryWithinLimitFrom3 ==
    Applied("create_simple_summary") =>
        /\ Len(request.content) <= request.max_length => response = request.content
        /\ (request.max_length >= 3
              /\ AllSentencesExceed(request.content, request.max_length)) =>
             EndsWith(response, Ellipsis) /\ Len(response) <= request.max_length

\* a single sentence of five letters cut to four characters
C13_Witness ==
    /\ Applied("create_simple_summary")
    /\ request.max_length = 4
    /\ request.content = <<"a", "a", "a", "a", "a">>
    /\ response = <<"a", ".", ".", ".">>

\* the number of keywords of the table that occur in the text, whatever its case
KeywordHits(table, text) ==
    Cardinality({ w \in Range(table) : Contains(Lower(text), w) })

\* C14: create_simple_sentiment says positive exactly when the text has
\* strictly more positive-keyword hits than negative ones, negative exactly
\* when it has strictly more negative ones, and neutral when the counts are
\* equal, the empty text included.
C14_SentimentByStrictMajority ==
    Applied("create_simple_sentiment") =>
        LET p == KeywordHits(positive_words, request.content)
            n == KeywordHits(negative_words, request.content)
        IN  /\ response.label = "positive" <=> p > n
            /\ response.label = "negative" <=> n > p
            /\ response.label = "neutral" <=> p = n
            /\ request.content = <<>> => response.label = "neutral"

\* three positive hits and one negative hit: positive
C14_Witness ==
    /\ Applied("create_simple_sentiment")
    /\ KeywordHits(positive_words, request.content) = 3
    /\ KeywordHits(negative_words, request.content) = 1
    /\ response.label = "positive"

\* two hits on either side: neutral
C14_WitnessTie ==
    /\ Applied("create_simple_sentiment")
    /\ KeywordHits(positive_words, request.content) = 2
    /\ KeywordHits(negative_words, request.content) = 2
    /\ response.label = "neutral"

\* C15: in both strategies a translation into English, or into a language
\* that has no dictionary (translate_to_language: any but hi and te) or no
\* loaded translator (translate_text), returns the text unchanged and raises
\* nothing.
C15_UnsupportedTargetUnchanged ==
    /\ (Applied("translate_to_language") /\ request.target_language \notin {"hi", "te"}) =>
          ~response.raises /\ response.value = request.text
    /\ (Applied("translate_text")
          /\ (request.target_language = "en"
                \/ request.target_language \notin request.loaded)) =>
          ~response.raises /\ response.value = request.text

\* the fallback engine asked for Tamil on a text whose Hindi rendering differs
C15_Witness ==
    /\ Applied("translate_to_language")
    /\ request.target_language = "ta"
    /\ request.text = <<"n", "e", "w", "s", " ", "x">>
    /\ translate_to_language(request.text, "hi") # request.text
    /\ response.value = request.text

\* the backend asked for Telugu while only hi and fr are loaded
C15_WitnessBackend ==
    /\ Applied("translate_text")
    /\ request.target_language = "te" /\ request.loaded = {"hi", "fr"}
    /\ request.text # <<>>
    /\ response.value = request.text

\* the table entries whose term occurs in the keyword, whatever its case
MatchingTerms(keyword) ==
    { k \in 1..Len(indian_movie_terms) : Contains(Lower(keyword), indian_movie_terms[k].term) }

\* an entertainment word occurs in the keyword
EntertainmentKeyword(keyword) ==
    \E w \in Range(entertainment_words) : Contains(Lower(keyword), w)

\* C16: _enhance_keyword_for_indian_content returns the replacement of the
\* first table entry, in table order, whose term is a case-insensitive
\* substring of the keyword, and the keyword unchanged when no table term and
\* no entertainment word matches; for "bollywood" the result contains
\* "hindi", "mumbai" and "films".
C16_FirstTermEnhancement ==
    Applied("_enhance_keyword_for_indian_content") =>
        LET keyword == request.keyword
            hits == MatchingTerms(keyword)
        IN  /\ hits # {} => response = Enhanced(indian_movie_terms[SetMin(hits)], keyword)
            /\ (hits = {} /\ ~EntertainmentKeyword(keyword)) => response = keyword
            /\ keyword = <<"b", "o", "l", "l", "y", "w", "o", "o", "d">> =>
                 /\ Contains(response, <<"h", "i", "n", "d", "i">>)
                 /\ Contains(response, <<"m", "u", "m", "b", "a", "i">>)
                 /\ Contains(response, <<"f", "i", "l", "m", "s">>)

\* a keyword that holds a general term ahead of a named industry: the
\* industry's entry, earlier in the table, gives the result
C16_Witness ==
    /\ Applied("_enhance_keyword_for_indian_content")
    /\ request.keyword = <<"M", "O", "V", "I", "E", "S", " ", "T", "o", "l", "l", "y", "w", "o", "o", "d">>
    /\ MatchingTerms(request.keyword) = {3, 5}
    /\ response = indian_movie_terms[3].enhanced

\* the granularity of a rendered age
Granularity(r) ==
    IF r.words \in {"day ago", "days ago"} THEN "day"
    ELSE IF r.words \in {"hour ago", "hours ago"} THEN "hour"
    ELSE IF r.words \in {"minute ago", "minutes ago"} THEN "minute"
    ELSE r.words

\* C17: for a parsable publishedAt of age d seconds, format_time_ago renders
\* days when d >= 86400, hours when 3600 <= d < 86400, minutes when
\* 60 <= d < 3600 and "Just now" otherwise; an empty or unparsable publishedAt
\* renders "Unknown time"; an age of 25 hours renders "1 day ago".
C17_TimeAgoGranularity ==
    Applied("format_time_ago") =>
        LET p == request.published_at
            d == request.now - p.instant
        IN  IF p.form \notin {"iso_z", "iso_date"}
            THEN response.words = "Unknown time"
            ELSE /\ Granularity(response) =
                       (IF d >= 86400 THEN "day"
                        ELSE IF d >= 3600 THEN "hour"
                        ELSE IF d >= 60 THEN "minute"
                        ELSE "Just now")
                 /\ d = 25 * 3600 => response = [count |-> 1, words |-> "day ago"]

\* the topics, by position in the fixed order, with a keyword in the
\* combined title and content text of the articles
MatchedTopics(arts) ==
    { i \in 1..Len(follow_up_topics) :
        \E w \in Range(follow_up_topics[i].terms) :
            \E k \in 1..Len(arts) :
                \/ Contains(Lower(arts[k].title), w)
                \/ Contains(Lower(arts[k].content), w)
                \/ Contains(Lower(arts[k].title \o <<" ">> \o arts[k].content), w)
                \/ k < Len(arts) /\ Contains(Lower(arts[k].content \o <<" ">> \o arts[k + 1].title), w) }

\* the suggestions of the matched topics, in the fixed order
RECURSIVE TopicSuggestions(_, _)
TopicSuggestions(matched, i) ==
    IF i > Len(follow_up_topics) THEN <<>>
    ELSE (IF i \in matched THEN follow_up_topics[i].suggestions ELSE <<>>)
         \o TopicSuggestions(matched, i + 1)

StrategyOf(e) ==
    IF e.sentiment.emoji \in {AIGlyph_positive, AIGlyph_negative, AIGlyph_neutral}
    THEN "advanced" ELSE "fallback"

\* the strategy the flag selects
SelectedStrategy == IF AI_AVAILABLE THEN "advanced" ELSE "fallback"

\* C19: the strategy flag set at start-up is changed by no request handler,
\* and every article of every request is enriched by the strategy the flag
\* selects.
C19_StrategyFixedAtStartup ==
    /\ [][AI_AVAILABLE' = AI_AVAILABLE]_vars
    /\ []((pc = "done" /\ op \in HandlerOps) =>
            \A k \in 1..Len(processed_articles) :
                StrategyOf(processed_articles[k]) = SelectedStrategy)

\* a request under the advanced backend whose summarization failed for the
\* first of two articles: both carry the backend's sentiment
C19_Witness ==
    /\ Aggregated /\ AI_AVAILABLE
    /\ Len(processed_articles) = 2
    /\ SummarizeFailed(1) /\ ~SummarizeFailed(2)
    /\ StrategyOf(processed_articles[1]) = "advanced"
    /\ StrategyOf(processed_articles[2]) = "advanced"

\* the request of a validating entry point holds a category, a country code
\* or a language outside the recognized sets
HoldsUnrecognized(args) ==
    \/ args.category # None /\ LowerCode(args.category) \notin valid_categories
    \/ \E k \in 1..Len(args.country) :
          args.country # <<"">> /\ LowerCode(Strip(args.country[k])) \notin valid_countries
    \/ args.language \notin valid_languages

\* C20: whenever an entry point calls fetch_news, the category passed is
\* absent or recognized, every country code passed is recognized and the
\* language is recognized; a request holding a value outside these sets is
\* rejected and fetch_news is not called.
C20_FetchGetsRecognizedValues ==
    (pc = "done" /\ op \in HandlerOps) =>
        /\ adapter_calls # <<>> =>
             /\ params.category = None \/ params.category \in valid_categories
             /\ \A k \in 1..Len(country) : country[k] \in valid_countries
             /\ params.language \in valid_languages
        /\ (op # "natural_language_processor" /\ HoldsUnrecognized(request)) =>
             /\ adapter_calls = <<>>
             /\ response.status # 200

\* /getnews asked for category Sports and country IN: fetch_news is called
\* with sports and in
C20_Witness ==
    /\ pc = "done" /\ op = "puch_ai_get_news"
    /\ request.category = "Sports" /\ request.country = <<"IN">>
    /\ adapter_calls # <<>>
    /\ params.category = "sports" /\ country = <<"in">>

\* /news asked for the countries in,zz: rejected, fetch_news not called
C20_WitnessRejected ==
    /\ pc = "done" /\ op = "get_news"
    /\ request.country = <<"in", "zz">>
    /\ adapter_calls = <<>>
    /\ response.status = 400

-----------------------------------------------------------------------------
(* fetch_news call by call: its adapter calls are steps, each ended by the
   provider's answer, a failure or the timeout of urlopen *)

\* provider items of the step-wise runs; a provider answers a call with one
\* item at most
StepItems ==
    { [title |-> Txt_title, description |-> Txt_description, publishedAt |-> p] :
        p \in { [form |-> "iso_z", instant |-> 1], [form |-> "empty", instant |-> 0] } }

\* fetch_news is entered: countries_list is computed, no call is made yet
fetch_news_enter ==
    /\ pc = "idle"
    /\ \E c \in CountryParams :
         /\ pc' = "running"
         /\ op' = "fetch_news"
         /\ country' = c
    /\ UNCHANGED <<AI_AVAILABLE, translators, request, params, page_size, responses,
                   adapter_calls, all_articles, articles, raised, backend,
                   processed_articles, response>>

\* the next adapter call of the run: urlopen(url, timeout=self.timeout)
\* answers, fails or times out, and the try/except around the call takes the
\* failure
adapter_call ==
    /\ pc = "running"
    /\ Len(adapter_calls) < NumCalls(country)
    /\ \E payload \in Payloads(StepItems, 1, FailureKinds) :
         LET c == CallPlan(CountriesList(country))[Len(adapter_calls) + 1]
             r == IF c.adapter = "newsapi" THEN _fetch_from_newsapi(payload)
                  ELSE _fetch_from_gnews(payload)
             entry == [adapter |-> c.adapter, country |-> c.country,
                       failed |-> r.raises, returned |-> Len(r.articles)]
             got == IF c.tagged THEN Tag(r.articles, c.tag) ELSE r.articles
         IN  /\ responses' = Append(responses, payload)
             /\ adapter_calls' = Append(adapter_calls, entry)
             /\ IF r.raises /\ ~ExceptCatches(r.error)
                THEN /\ pc' = "done"
                     /\ raised' = TRUE
                     /\ UNCHANGED all_articles
                ELSE /\ pc' = "running"
                     /\ raised' = FALSE
                     /\ all_articles' = all_articles \o got
    /\ UNCHANGED <<AI_AVAILABLE, translators, op, request, params, country, page_size,
                   articles, backend, processed_articles, response>>

\* every call of the plan is over: rank, cut and return
rank_and_return ==
    /\ pc = "running"
    /\ Len(adapter_calls) = NumCalls(country)
    /\ pc' = "done"
    /\ articles' = IF all_articles = <<>> THEN <<>>
                   ELSE Slice(Sorted(all_articles), page_size)
    /\ UNCHANGED <<AI_AVAILABLE, translators, op, request, params, country, page_size,
                   responses, adapter_calls, all_articles, raised, backend,
                   processed_articles, response>>

NextSteps ==
    \/ fetch_news_enter
    \/ adapter_call
    \/ rank_and_return
    \/ Return

\* timeout=self.timeout ends every adapter call, and sorting a finite list
\* ends: a run that is under way takes its next step
SpecSteps ==
    Init /\ [][NextSteps]_vars /\ WF_vars(adapter_call) /\ WF_vars(rank_and_return)

\* the number of adapter calls the country list fixes: the primary call, one
\* secondary call per country, and two secondary calls when there is none
PlannedCalls(c) ==
    LET n == Len(CountriesList(c)) IN IF n = 0 THEN 3 ELSE 1 + n

RECURSIVE Returned(_, _)
Returned(calls, k) == IF k = 0 THEN 0 ELSE Returned(calls, k - 1) + calls[k].returned

\* C21: every fetch_news call terminates: it makes the number of adapter
\* calls its country list fixes, a call that fails or times out adds no
\* article, whichever failure it is, and once the calls are over the ranked
\* result is returned.
C21_FetchNewsTerminates ==
    /\ [](pc \in {"running", "done"} =>
            /\ Len(adapter_calls) <= PlannedCalls(country)
            /\ Len(all_articles) = Returned(adapter_calls, Len(adapter_calls))
            /\ \A k \in 1..Len(adapter_calls) :
                 ~responses[k].ok =>
                     adapter_calls[k].failed /\ adapter_calls[k].returned = 0)
    /\ [](pc = "done" =>
            /\ ~raised
            /\ Len(adapter_calls) = PlannedCalls(country)
            /\ Len(articles) = (IF Len(all_articles) < page_size
                                THEN Len(all_articles) ELSE page_size))
    /\ (pc = "running") ~> (pc = "done")

\* a run over two countries whose second call timed out and whose third
\* failed to decode: the first call's article alone is returned
C21_Witness ==
    /\ pc = "done" /\ country = <<"in", " us">>
    /\ Len(adapter_calls) = 3
    /\ responses[1].ok /\ Len(responses[1].items) = 1
    /\ responses[2].error = "timeout"
    /\ responses[3].error = "decode"
    /\ Len(articles) = 1

\* the first k sentences of the text, as '. ' separates them, each followed
\* by '. '
LeadingRun(t, k) ==
    Join(SubSeq(Split(t, <<".", " ">>), 1, k), <<".", " ">>) \o <<".", " ">>

\* the runs of leading sentences that, stripped as they are returned, are no
\* longer than n
ReturnedRunsWithin(t, n) ==
    { k \in 1..Len(Split(t, <<".", " ">>)) : Len(StripText(LeadingRun(t, k))) <= n }

\* the runs of leading sentences that, the closing '. ' included, are no
\* longer than n
RunsWithin(t, n) ==
    { k \in 1..Len(Split(t, <<".", " ">>)) : Len(LeadingRun(t, k)) <= n }

\* some sentence of the text, followed by '. ', is no longer than n
SomeSentenceFits(t, n) ==
    LET sentences == Split(t, <<".", " ">>)
    IN  \E k \in 1..Len(sentences) : Len(sentences[k]) + 2 <= n

\* C22 as claimed: for a content longer than max_length, create_simple_summary
\* returns the longest run of whole leading sentences whose returned length
\* is at or under max_length, and truncates only when no sentence of the
\* content fits within max_length.
C22_LongestReturnedRun ==
    (Applied("create_simple_summary") /\ Len(request.content) > request.max_length) =>
        LET fits == ReturnedRunsWithin(request.content, request.max_length)
        IN  /\ fits # {} =>
                 response = StripText(LeadingRun(request.content, Cardinality(fits)))
            /\ SomeSentenceFits(request.content, request.max_length) =>
                 \E k \in 1..Len(Split(request.content, <<".", " ">>)) :
                     response = StripText(LeadingRun(request.content, k))

\* C22 as amended: for a content longer than max_length, create_simple_summary
\* returns, stripped, the longest run of whole leading sentences that with
\* the '. ' behind each sentence is at or under max_length, and truncates to
\* max_length - 3 characters plus "..." exactly when the first sentence with
\* its '. ' is longer than max_length.
C22_LongestRunWithSeparator ==
    (Applied("create_simple_summary") /\ Len(request.content) > request.max_length) =>
        LET fits == RunsWithin(request.content, request.max_length)
        IN  /\ fits = {} <=> Len(LeadingRun(request.content, 1)) > request.max_length
            /\ response =
                 IF fits = {}
                 THEN StripText(Prefix(request.content, request.max_length - 3) \o Ellipsis)
                 ELSE StripText(LeadingRun(request.content, Cardinality(fits)))

\* "a. aa" summarised to three characters: the first sentence alone
C22_Witness ==
    /\ Applied("create_simple_summary")
    /\ request.max_length = 3
    /\ request.content = <<"a", ".", " ", "a", "a">>
    /\ response = <<"a", ".">>

\* "aa. a" summarised to three characters: truncated, although "aa." and the
\* second sentence are within the limit
C22_WitnessTruncated ==
    /\ Applied("create_simple_summary")
    /\ request.max_length = 3
    /\ request.content = <<"a", "a", ".", " ", "a">>
    /\ response = Ellipsis

\* the label is l, in whatever letter case
Spells(label, l) == Len(label) = Len(l) /\ \A k \in 1..Len(l) : label[k] \in {l[k], Upper(l)[k]}

\* C23: AIService.analyze_sentiment returns a label of positive, negative
\* and neutral whatever the pipeline answers; label_0 and negative give
\* negative, label_1 and neutral give neutral, label_2 and positive give
\* positive, in any letter case; an unrecognized label, an empty text and a
\* pipeline that raises give neutral.
C23_SentimentLabelMapping ==
    Applied("analyze_sentiment") =>
        LET label == request.pipeline.label
            answered == request.text # <<>> /\ ~request.pipeline.raises
            says(l) == answered /\ Spells(label, l)
        IN  /\ ~response.raises
            /\ response.value.label \in {"positive", "negative", "neutral"}
            /\ (says(Label_0) \/ says(Label_negative)) => response.value.label = "negative"
            /\ (says(Label_1) \/ says(Label_neutral)) => response.value.label = "neutral"
            /\ (says(Label_2) \/ says(Label_positive)) => response.value.label = "positive"
            /\ (\A l \in {Label_0, Label_1, Label_2, Label_positive, Label_negative,
                          Label_neutral} : ~says(l)) => response.value.label = "neutral"

\* the pipeline answered LABEL_2 and the text is found positive
C23_Witness ==
    /\ Applied("analyze_sentiment")
    /\ request.text = <<"a">>
    /\ ~request.pipeline.raises
    /\ request.pipeline.label = <<"L", "A", "B", "E", "L", "_", "2">>
    /\ response.value.label = "positive"

\* a label the mapping does not know is answered with neutral
C23_WitnessUnrecognized ==
    /\ Applied("analyze_sentiment")
    /\ request.text = <<"a">>
    /\ ~request.pipeline.raises
    /\ request.pipeline.label = <<"l", "a", "b", "e", "l", "_", "3">>
    /\ response.value.label = "neutral"

\* an empty text is neutral although the pipeline would have said positive
C23_WitnessEmptyText ==
    /\ Applied("analyze_sentiment")
    /\ request.text = <<>>
    /\ request.pipeline.label = Label_positive
    /\ response.value.label = "neutral"

\* article a ranks before article b: a lower priority number, or the same
\* priority and a later publish time
RanksBefore(a, b) ==
    \/ PriorityOf(a) < PriorityOf(b)
    \/ PriorityOf(a) = PriorityOf(b) /\ TimeOf(a) > TimeOf(b)

\* the articles tie on priority and on parsed publish time
Ties(a, b) == PriorityOf(a) = PriorityOf(b) /\ TimeOf(a) = TimeOf(b)

\* the place of the i-th collected article in the ranking that keeps ties in
\* the order of collection
StableRank(s, i) ==
    1 + Cardinality({ j \in 1..Len(s) :
                        RanksBefore(s[j], s[i]) \/ (Ties(s[j], s[i]) /\ j < i) })

\* C24: the article sequence fetch_news returns is determined by its
\* parameters and the adapter responses: the merged list holds the answers
\* call by call in provider order, and every article stands at the place its
\* priority and parsed publish time give it, articles that tie on both in
\* the order in which they were collected.
C24_RankingDeterministicStable ==
    FetchDone =>
        /\ \A k \in 1..Len(adapter_calls) :
             (responses[k].ok /\ adapter_calls[k].returned = Len(responses[k].items)) =>
                \A j \in 1..Len(responses[k].items) :
                    /\ all_articles[Offset(adapter_calls, k) + j].publishedAt
                         = responses[k].items[j].publishedAt
                    /\ all_articles[Offset(adapter_calls, k) + j].source
                         = (IF k = 1 THEN "NewsAPI" ELSE "GNews")
        /\ Len(articles) = (IF Len(all_articles) < page_size THEN Len(all_articles)
                            ELSE page_size)
        /\ \A i \in 1..Len(all_articles) :
             StableRank(all_articles, i) <= page_size =>
                articles[StableRank(all_articles, i)] = all_articles[i]

\* a NewsAPI article and an untagged GNews article of the same instant are
\* both returned, the NewsAPI article first
C24_Witness ==
    /\ FetchDone
    /\ \E i, j \in 1..Len(all_articles) :
         /\ i < j
         /\ Ties(all_articles[i], all_articles[j])
         /\ all_articles[i].source = "NewsAPI" /\ all_articles[j].source = "GNews"
         /\ StableRank(all_articles, j) <= page_size
         /\ articles[StableRank(all_articles, i)].source = "NewsAPI"
         /\ articles[StableRank(all_articles, j)].source = "GNews"
         /\ StableRank(all_articles, j) = StableRank(all_articles, i) + 1

=============================================================================
